---- MODULE Spec2Model ----
(***************************************************************************)
(* Model of the orbital layout / physics engine (orbital-v3 (1).jsx) and  *)
(* of the timeline editor (timeline-editor/src/App.tsx, lib/utils.ts).     *)
(*                                                                         *)
(* Numbers.  The program computes in IEEE doubles; the model computes in   *)
(* fixed point, rounding every quotient to the nearest unit:               *)
(*   lengths and velocities  in 1/LS pixel,                                *)
(*   angles, sines, cosines  in 1/AS (radian, resp. unit),                 *)
(*   physics tunables        in 1/PS.                                      *)
(* Statements that are exact over the reals are stated with the rounding   *)
(* tolerances AngleTol / LenTol.                                           *)
(***************************************************************************)
EXTENDS Integers, Sequences, FiniteSets, TLC

\* ------------------------------------------------------------------ bounds
\* Longest item list drawn as an input of the layout solver (SpecCT).
MaxLen == 3
\* Cap on elapsed normalised time: Tick is disabled once timeRef reaches it.
MaxTime == 2
\* Cap on the number of input events (pointer events, add, remove) the
\* environment delivers.
MaxEvents == 3
\* Cap on elapsed time while a cooldown lasts (RunOn).
MaxRunOn == 21

\* Rounding tolerance of statements about angles (1/AS radian) and about
\* lengths (1/LS pixel), and the angular distance up to which two directions
\* count as the same angle.
AngleTol == 50
LenTol == 3
SameAngleTol == 100

\* ------------------------------------------------------------ fixed point
LS == 10
AS == 10000
PS == 1000
\* Math.PI in 1/AS radian.
PiA == 31416
TwoPiA == 2 * PiA
HalfPiA == PiA \div 2

Abs(a) == IF a < 0 THEN -a ELSE a
Sgn(a) == IF a < 0 THEN -1 ELSE IF a > 0 THEN 1 ELSE 0
Max(a, b) == IF a >= b THEN a ELSE b
Min(a, b) == IF a <= b THEN a ELSE b

\* a / b rounded to the nearest integer (half away from zero), b # 0.
RDiv(a, b) == Sgn(a) * Sgn(b) * ((2 * Abs(a) + Abs(b)) \div (2 * Abs(b)))

\* JavaScript's % : the remainder takes the sign of the dividend.
JsRem(a, m) == Sgn(a) * (Abs(a) % m)

\* Math.sqrt on a non-negative integer, rounded to the nearest integer.
RECURSIVE SqrtSearch(_, _, _)
SqrtSearch(n, lo, hi) ==
    IF lo >= hi THEN lo
    ELSE LET mid == (lo + hi + 1) \div 2
         IN  IF mid * mid <= n THEN SqrtSearch(n, mid, hi)
                               ELSE SqrtSearch(n, lo, mid - 1)

Sqrt(n) ==
    LET f == SqrtSearch(n, 0, 46340)
    IN  IF n - f * f > f THEN f + 1 ELSE f

\* Math.sin of an angle in 1/AS radian, result in 1/AS.
\* Range reduction to [-pi/2, pi/2], then the Taylor polynomial to x^9.
SinReduced(x) ==
    LET x2 == RDiv(x * x, AS)
        t4 == AS - RDiv(x2, 72)
        t3 == AS - RDiv(x2 * t4, 42 * AS)
        t2 == AS - RDiv(x2 * t3, 20 * AS)
        t1 == AS - RDiv(x2 * t2, 6 * AS)
    IN  RDiv(x * t1, AS)

Sin(a) ==
    LET r == ((a + PiA) % TwoPiA) - PiA
    IN  IF r > HalfPiA THEN SinReduced(PiA - r)
        ELSE IF r < -HalfPiA THEN SinReduced(-PiA - r)
        ELSE SinReduced(r)

Cos(a) == Sin(a + HalfPiA)

\* Math.atan on [0, 1] (argument and result in 1/AS): odd minimax polynomial.
AtanUnit(z) ==
    LET z2 == RDiv(z * z, AS)
        p4 == 208
        p3 == RDiv(z2 * p4, AS) - 851
        p2 == RDiv(z2 * p3, AS) + 1801
        p1 == RDiv(z2 * p2, AS) - 3303
        p0 == RDiv(z2 * p1, AS) + 9999
    IN  RDiv(z * p0, AS)

\* Math.atan2(y, x), result in 1/AS radian, in [-pi, pi]; atan2(0, 0) = 0.
Atan2(y, x) ==
    LET ax == Abs(x)
        ay == Abs(y)
        a  == IF ax = 0 /\ ay = 0 THEN 0
              ELSE IF ax >= ay THEN AtanUnit(RDiv(ay * AS, ax))
              ELSE HalfPiA - AtanUnit(RDiv(ax * AS, ay))
        s  == IF y < 0 THEN -1 ELSE 1
    IN  IF x >= 0 THEN s * a ELSE s * (PiA - a)

\* --------------------------------------------------------------- geometry
\* SIZES = ["XS","S","M","L","XL"], indexed 0..4.
NumSizes == 5
SizeIndexes == 0 .. (NumSizes - 1)

\* SIZE_DIMS[SIZES[i]] in pixels.
SIZE_DIMS(i) ==
    CASE i = 0 -> [w |-> 82,  h |-> 52]
      [] i = 1 -> [w |-> 128, h |-> 78]
      [] i = 2 -> [w |-> 182, h |-> 108]
      [] i = 3 -> [w |-> 240, h |-> 140]
      [] i = 4 -> [w |-> 308, h |-> 174]

\* Math.sqrt(d.w * d.w + d.h * d.h) / 2, in 1/LS pixel, for every size.
HalfDiags ==
    [i \in SizeIndexes |->
        LET d == SIZE_DIMS(i)
        IN  RDiv(Sqrt((d.w * d.w + d.h * d.h) * LS * LS), 2)]

HalfDiag(sizeIndex) == HalfDiags[sizeIndex]

\* ------------------------------------------------------------ item lists
makeWidget(id, order, sizeIndex) ==
    [id |-> id, order |-> order, sizeIndex |-> sizeIndex]

Ids(ws) == {ws[i].id : i \in 1 .. Len(ws)}
Orders(ws) == {ws[i].order : i \in 1 .. Len(ws)}
Items(ws) == {ws[i] : i \in 1 .. Len(ws)}

\* Array.prototype.find: the first element satisfying the test, else NoItem.
NoItem == [id |-> 0, order |-> -1, sizeIndex |-> 0]

FindById(ws, id) ==
    IF \E i \in 1 .. Len(ws) : ws[i].id = id
    THEN ws[CHOOSE i \in 1 .. Len(ws) :
               ws[i].id = id /\ \A j \in 1 .. (i - 1) : ws[j].id # id]
    ELSE NoItem

\* [...ws].sort((a, b) => a.order - b.order): stable, ascending by order.
RECURSIVE InsertByOrder(_, _)
InsertByOrder(sorted, w) ==
    IF sorted = <<>> THEN <<w>>
    ELSE IF sorted[Len(sorted)].order <= w.order THEN Append(sorted, w)
    ELSE Append(InsertByOrder(SubSeq(sorted, 1, Len(sorted) - 1), w),
                sorted[Len(sorted)])

RECURSIVE SortByOrder(_)
SortByOrder(ws) ==
    IF ws = <<>> THEN <<>>
    ELSE InsertByOrder(SortByOrder(SubSeq(ws, 1, Len(ws) - 1)), ws[Len(ws)])

\* ---------------------------------------------------------- layout solver
\* Mutant of TotalArc: the gap is taken off every slot instead of added.
RECURSIVE TotalArcLessGap(_, _, _)
TotalArcLessGap(sorted, n, gapL) ==
    IF n = 0 THEN 0
    ELSE TotalArcLessGap(sorted, n - 1, gapL) + HalfDiag(sorted[n].sizeIndex) * 2 - gapL

\* halfDiags.reduce((s, v) => s + v * 2 + gap, 0), over the first n items.
RECURSIVE TotalArc(_, _, _)
TotalArc(sorted, n, gapL) ==
    IF n = 0 THEN 0
    ELSE TotalArc(sorted, n - 1, gapL) + HalfDiag(sorted[n].sizeIndex) * 2 + gapL

\* Mutant of SolveRadius: the pad is added after the floor.
SolveRadiusPadAfterFloor(totalArc, padL) ==
    Max(160 * LS, RDiv(totalArc * AS, TwoPiA)) + padL

\* Math.max(160, totalArc / (Math.PI * 2) + orbitPad), in 1/LS pixel.
MinRadius == 160
SolveRadius(totalArc, padL) ==
    Max(MinRadius * LS, RDiv(totalArc * AS, TwoPiA) + padL)

\* Mutant of Span: the final scaling by 2 pi is left out.
SpanUnscaled(slotArc, radius) ==
    RDiv(slotArc * AS, RDiv(radius * TwoPiA, AS))

\* slotArc / (radius * Math.PI * 2) * Math.PI * 2, in 1/AS radian.
Span(slotArc, radius) ==
    LET circumference == RDiv(radius * TwoPiA, AS)
    IN  RDiv(slotArc * TwoPiA, circumference)

\* The values of `accumulated` over sorted.forEach: element n + 1 is the
\* value after the first n items (element 1 is the start, the top).
RECURSIVE Accumulated(_, _, _, _)
Accumulated(sorted, n, gapL, radius) ==
    IF n = 0 THEN << -HalfPiA >>
    ELSE LET before == Accumulated(sorted, n - 1, gapL, radius)
         IN  Append(before,
                    before[n] + Span(HalfDiag(sorted[n].sizeIndex) * 2 + gapL, radius))

\* Mutant of TargetOf: the target sits at the start of its span.
TargetOfSpanStart(sorted, i, acc, gapL, radius) ==
    [x     |-> RDiv(Cos(acc) * radius, AS),
     y     |-> RDiv(Sin(acc) * radius, AS),
     angle |-> acc]

\* The target written by the i-th iteration of sorted.forEach; acc is the
\* value of `accumulated` when the iteration starts.
TargetOf(sorted, i, acc, gapL, radius) ==
    LET span  == Span(HalfDiag(sorted[i].sizeIndex) * 2 + gapL, radius)
        angle == acc + RDiv(span, 2)
    IN  [x     |-> RDiv(Cos(angle) * radius, AS),
         y     |-> RDiv(Sin(angle) * radius, AS),
         angle |-> angle]

\* Mutant of TargetMap: the loop stops one item short.
TargetMapShort(sorted, gapL, radius) ==
    LET acc == Accumulated(sorted, Len(sorted), gapL, radius)
    IN  [id \in {sorted[i].id : i \in 1 .. (Len(sorted) - 1)} |->
            LET i == CHOOSE j \in 1 .. Len(sorted) : sorted[j].id = id
            IN  TargetOf(sorted, i, acc[i], gapL, radius)]

\* The forEach over the sorted list: targets[w.id] = { x, y, angle }.  A later
\* item overwrites an earlier one with the same id, hence the maximal index.
TargetMap(sorted, gapL, radius) ==
    LET acc      == Accumulated(sorted, Len(sorted), gapL, radius)
        Last(id) == CHOOSE i \in 1 .. Len(sorted) :
                       /\ sorted[i].id = id
                       /\ \A j \in (i + 1) .. Len(sorted) : sorted[j].id # id
    IN  [id \in Ids(sorted) |->
            TargetOf(sorted, Last(id), acc[Last(id)], gapL, radius)]

\* Mutant of EmptyResult: the empty list gets the minimum radius.
EmptyResultAtFloor == [targets |-> [id \in {} |-> 0], radius |-> 160 * LS]

\* The result for the empty list: { targets: {}, radius: 180 }.
FallbackRadius == 180
EmptyTargets == [id \in {} |-> 0]
EmptyResult == [targets |-> EmptyTargets, radius |-> FallbackRadius * LS]

\* Mutant of computeTargets: the items are walked in array order, unsorted.
computeTargetsUnsorted(ws, gapPx, padPx) ==
    IF Len(ws) = 0 THEN EmptyResult
    ELSE LET sorted   == ws
             gapL     == gapPx * LS
             totalArc == TotalArc(sorted, Len(sorted), gapL)
             radius   == SolveRadius(totalArc, padPx * LS)
         IN  [targets |-> TargetMap(sorted, gapL, radius), radius |-> radius]

\* computeTargets(widgets, gap, orbitPad); gap and orbitPad in pixels.
computeTargets(ws, gapPx, padPx) ==
    IF Len(ws) = 0 THEN EmptyResult
    ELSE LET sorted   == SortByOrder(ws)
             gapL     == gapPx * LS
             totalArc == TotalArc(sorted, Len(sorted), gapL)
             radius   == SolveRadius(totalArc, padPx * LS)
         IN  [targets |-> TargetMap(sorted, gapL, radius), radius |-> radius]

\* ------------------------------------------------------------------ state
VARIABLES
    widgets,        \* useState widgets: the item list after every queued updater
    widgetsRef,     \* widgetsRef.current: the item list of the last render
    gap,            \* useState gap (pixels)
    orbitPad,       \* useState orbitPad (pixels)
    paramsRef,      \* paramsRef.current
    phy,            \* phy.current: id -> [x, y, vx, vy]
    drag,           \* drag.current (active = FALSE models null)
    mouseRef,       \* mouseRef.current
    reorderClock,   \* reorderClock.current
    timeRef,        \* timeRef.current
    breathe,        \* useState breathe
    uid,            \* the module-level counter _uid
    renderPending,  \* a tick's state updates wait for React's next render
    layout,         \* { targets, radius } computed by the last render
    targets,        \* the targets computed by the last tick
    events,         \* number of input events delivered so far
    lastEvent,      \* history: kind, button and clientX/Y of the last input event
    swapAge,        \* history: ticks run since the last swap (Never: no swap yet)
    breatheSpeed,   \* useState breatheSpeed (1/PS)
    frameRef,       \* frameRef.current: the handle of the last frame request
    rafQueue,       \* the handles of the frame requests the browser holds
    mounted,        \* the component is mounted (its effects are not cleaned up)
    \* the timeline editor (App.tsx)
    rows,           \* useState rows: the rows of the timeline, [id, frame]
    undoStack,      \* useState undoStack: snapshots of rows, oldest first
    redoStack,      \* useState redoStack
    isDirty,        \* useState isDirty
    fps,            \* useState fps
    durationFrames, \* useState durationFrames
    typed,          \* e.target.value of the last change of a timecode field
    loading,        \* the fetch of the timeline made at mount is in flight
    inFlight,       \* the rows of the save requests that are in flight
    savedRows       \* history: the rows last loaded or last saved with res.ok

\* The state of the timeline editor.
editorVars == <<rows, undoStack, redoStack, isDirty, fps, durationFrames, typed,
                loading, inFlight, savedRows>>

vars == <<widgets, widgetsRef, gap, orbitPad, paramsRef, phy, drag, mouseRef,
          reorderClock, timeRef, breathe, uid, renderPending, layout, targets,
          events, lastEvent, swapAge, breatheSpeed, frameRef, rafQueue, mounted,
          rows, undoStack, redoStack, isDirty, fps, durationFrames, typed,
          loading, inFlight, savedRows>>

\* useState(60), useState(360)
DefaultFps == 60
DefaultDuration == 360
\* No timecode field has been changed yet.
NotTyped == <<"none">>

\* The timeline editor after mount: no rows, empty stacks, the fetch of the
\* timeline under way.
EditorAtMount ==
    /\ rows = <<>>
    /\ undoStack = <<>>
    /\ redoStack = <<>>
    /\ isDirty = FALSE
    /\ fps = DefaultFps
    /\ durationFrames = DefaultDuration
    /\ typed = NotTyped
    /\ loading = TRUE
    /\ inFlight = {}
    /\ savedRows = <<>>

\* ----------------------------------------------------------------- inputs
\* Normalised frame durations dt = min((now - last) / 16.67, 3).
DtSet == {1}
\* Items the pointer is pressed on.
PressIds == {5, 8}
\* Mouse buttons: 0 is the primary button.
Buttons == {0, 2}
\* clientX / clientY of a press, in pixels.
PressPts == {<<0, 0>>}
\* clientX / clientY of a pointer move, in pixels: a point within the click
\* threshold and a far point, both in the direction of the initial target of
\* item 4.
MovePts == {<<3, 2>>, <<268, 179>>}
\* Slider values of gap and orbitPad (min, default, max of the sliders).
GapSet == {8, 28, 80}
PadSet == {0, 40, 120}
\* Slider values of breatheSpeed in 1/PS (default and max of the slider).
SpeedSet == {600, 4000}

\* ------------------------------------------------------- defaults (useState)
DefaultGap == 28
DefaultOrbitPad == 40
\* stiffness 0.042, damping 0.76, repulsion 3.5 in 1/PS; breatheSpeed 0.6.
DefaultStiffness == 42
DefaultDamping == 760
DefaultRepulsion == 3500
DefaultBreatheSpeed == 600
InitialCount == 8
MaxWidgets == 16
MinWidgets == 1
CooldownTicks == 20
NewSizeIndex == 1

\* A property that is not on paramsRef.current reads as undefined; the sine
\* of NaN is NaN (a value outside [-AS, AS]).
Undefined == 0 - 1
NaN == 2 * AS

\* No input event has been delivered since mount.
NoEvent == [kind |-> "none", button |-> 0, x |-> 0, y |-> 0]

\* The handle of the frame request the loop effect makes at mount.
FirstHandle == 1

\* No swap has been triggered since mount.
Never == 0 - 1

NullDrag ==
    [active |-> FALSE, id |-> 0, startX |-> 0, startY |-> 0,
     offsetX |-> 0, offsetY |-> 0, moved |-> FALSE]

NoLayout == [targets |-> EmptyTargets, radius |-> 0]

\* Mutant of syncPhysics: the stale entries are not pruned.
syncPhysicsNoPrune(ph, ws, p) ==
    LET tg == computeTargets(ws, p.gap, p.orbitPad).targets
        t(id) == IF id \in DOMAIN tg THEN tg[id] ELSE [x |-> 0, y |-> 0]
    IN  [id \in Ids(ws) \cup DOMAIN ph |->
            IF id \in DOMAIN ph THEN ph[id]
            ELSE [x |-> 0, y |-> 0,
                  vx |-> RDiv(t(id).x * 15, 100),
                  vy |-> RDiv(t(id).y * 15, 100)]]

\* ------------------------------------------------------- motion-state sync
\* syncPhysics(ws): seed the missing entries, prune the stale ones.  An item
\* without a target is seeded as if its target were the centre:
\* targets[w.id] || { x: 0, y: 0 }.
syncPhysics(ph, ws, p) ==
    LET tg == computeTargets(ws, p.gap, p.orbitPad).targets
        t(id) == IF id \in DOMAIN tg THEN tg[id] ELSE [x |-> 0, y |-> 0]
    IN  [id \in Ids(ws) |->
            IF id \in DOMAIN ph THEN ph[id]
            ELSE [x |-> 0, y |-> 0,
                  vx |-> RDiv(t(id).x * 15, 100),
                  vy |-> RDiv(t(id).y * 15, 100)]]

\* ------------------------------------------------------------ the updaters
\* Mutant of SwapUpd: the item that held the chosen order keeps it.
SwapUpdKeepOther(prev, id, bestOrder, dwOrder) ==
    [i \in 1 .. Len(prev) |->
        IF prev[i].id = id THEN [prev[i] EXCEPT !.order = bestOrder] ELSE prev[i]]

\* Mutant of SwapUpd: the dragged item is moved to the chosen order and the
\* items in between shift by one place.
SwapUpdShift(prev, id, bestOrder, dwOrder) ==
    [i \in 1 .. Len(prev) |->
        IF prev[i].id = id THEN [prev[i] EXCEPT !.order = bestOrder]
        ELSE IF dwOrder < prev[i].order /\ prev[i].order <= bestOrder
             THEN [prev[i] EXCEPT !.order = @ - 1]
        ELSE IF bestOrder <= prev[i].order /\ prev[i].order < dwOrder
             THEN [prev[i] EXCEPT !.order = @ + 1]
        ELSE prev[i]]

\* Mutant of SwapUpd: the dragged item is made anew at the chosen order, with
\* the size of a new item.
SwapUpdRemake(prev, id, bestOrder, dwOrder) ==
    LET hit      == {i \in 1 .. Len(prev) :
                        prev[i].order = bestOrder /\ prev[i].id # id}
        swapWith == IF hit = {} THEN NoItem
                    ELSE prev[CHOOSE i \in hit : \A j \in hit : i <= j]
    IN  [i \in 1 .. Len(prev) |->
            IF prev[i].id = id THEN makeWidget(id, bestOrder, NewSizeIndex)
            ELSE IF hit # {} /\ prev[i].id = swapWith.id
                 THEN [prev[i] EXCEPT !.order = dwOrder]
            ELSE prev[i]]

\* The updater of the reorder swap: prev.map(...) with swapWith found in prev.
SwapUpd(prev, id, bestOrder, dwOrder) ==
    LET hit      == {i \in 1 .. Len(prev) :
                        prev[i].order = bestOrder /\ prev[i].id # id}
        swapWith == IF hit = {} THEN NoItem
                    ELSE prev[CHOOSE i \in hit : \A j \in hit : i <= j]
    IN  [i \in 1 .. Len(prev) |->
            IF prev[i].id = id THEN [prev[i] EXCEPT !.order = bestOrder]
            ELSE IF hit # {} /\ prev[i].id = swapWith.id
                 THEN [prev[i] EXCEPT !.order = dwOrder]
            ELSE prev[i]]

\* sorted.map((w, i) => ({ ...w, order: i })) on the first n items.
Reindex(sorted, n) == [i \in 1 .. n |-> [sorted[i] EXCEPT !.order = i - 1]]

\* Mutant of AddUpd: the new item is numbered by its place in the list.
AddUpdIdByPlace(prev, newId) ==
    IF Len(prev) >= MaxWidgets THEN prev
    ELSE LET sorted == SortByOrder(prev)
         IN  Append(Reindex(sorted, Len(sorted)),
                    makeWidget(Len(sorted) + 1, Len(sorted), NewSizeIndex))

\* The updater of addWidget; newId is the id uid() hands out.
AddUpd(prev, newId) ==
    IF Len(prev) >= MaxWidgets THEN prev
    ELSE LET sorted == SortByOrder(prev)
         IN  Append(Reindex(sorted, Len(sorted)),
                    makeWidget(newId, Len(sorted), NewSizeIndex))

\* The item removeWidget's updater drops: sorted[sorted.length - 1].
Removed(prev) == SortByOrder(prev)[Len(prev)]

\* Mutant of RemoveUpd: the first item of the order sequence is dropped.
RemoveUpdFirst(prev) ==
    IF Len(prev) <= 1 THEN prev
    ELSE LET sorted == SortByOrder(prev)
         IN  [i \in 1 .. (Len(prev) - 1) |-> [sorted[i + 1] EXCEPT !.order = i - 1]]

\* Mutant of RemoveUpd: the last item of the array is dropped, whatever its
\* order.
RemoveUpdLastInArray(prev) ==
    IF Len(prev) <= MinWidgets THEN prev
    ELSE SortByOrder([i \in 1 .. (Len(prev) - 1) |-> prev[i]])

\* The updater of removeWidget.
RemoveUpd(prev) ==
    IF Len(prev) <= MinWidgets THEN prev
    ELSE Reindex(SortByOrder(prev), Len(prev) - 1)

\* Mutant of CycleSize: the largest size does not wrap.
CycleSizeNoWrap(s) == Min(s + 1, 4)

\* (w.sizeIndex + 1) % SIZES.length
CycleSize(s) == (s + 1) % NumSizes

\* Mutant of ClickUpd: the clicked item is also moved to the first order.
ClickUpdToFront(prev, id) ==
    [i \in 1 .. Len(prev) |->
        IF prev[i].id = id
        THEN [prev[i] EXCEPT !.sizeIndex = CycleSize(prev[i].sizeIndex),
                             !.order = 0]
        ELSE prev[i]]

\* The updater of a click: the next item list.
ClickUpd(prev, id) ==
    [i \in 1 .. Len(prev) |->
        IF prev[i].id = id
        THEN [prev[i] EXCEPT !.sizeIndex = CycleSize(prev[i].sizeIndex)]
        ELSE prev[i]]

\* Mutant of Ripple: the strength is taken from the size the click cycles to.
RippleResultingSize(ph, prev, id) ==
    LET clicked == FindById(prev, id)
        size    == IF id \in Ids(prev) THEN CycleSize(clicked.sizeIndex) ELSE 1
        str     == RDiv((25 + size * 6) * LS, 10)
    IN  [k \in DOMAIN ph |->
            IF k # id /\ k \in Ids(prev)
            THEN LET ang == Atan2(ph[k].y, ph[k].x)
                 IN  [ph[k] EXCEPT !.vx = @ + RDiv(Cos(ang) * str, AS),
                                   !.vy = @ + RDiv(Sin(ang) * str, AS)]
            ELSE ph[k]]

\* Mutant of Ripple: the impulse is added to the positions.
RippleDisplaces(ph, prev, id) ==
    LET clicked == FindById(prev, id)
        size    == IF id \in Ids(prev) THEN clicked.sizeIndex ELSE 1
        str     == RDiv((25 + size * 6) * LS, 10)
    IN  [k \in DOMAIN ph |->
            IF k # id /\ k \in Ids(prev)
            THEN LET ang == Atan2(ph[k].y, ph[k].x)
                 IN  [ph[k] EXCEPT !.x = @ + RDiv(Cos(ang) * str, AS),
                                   !.y = @ + RDiv(Sin(ang) * str, AS)]
            ELSE ph[k]]

\* The ripple impulse of a click, applied inside the updater to every other
\* item of the list that has motion state.
Ripple(ph, prev, id) ==
    LET clicked == FindById(prev, id)
        size    == IF id \in Ids(prev) THEN clicked.sizeIndex ELSE 1
        str     == RDiv((25 + size * 6) * LS, 10)   \* 2.5 + sizeIndex * 0.6
    IN  [k \in DOMAIN ph |->
            IF k # id /\ k \in Ids(prev)
            THEN LET ang == Atan2(ph[k].y, ph[k].x)
                 IN  [ph[k] EXCEPT !.vx = @ + RDiv(Cos(ang) * str, AS),
                                   !.vy = @ + RDiv(Sin(ang) * str, AS)]
            ELSE ph[k]]

\* --------------------------------------------------------------- rendering
\* Mutant of Commit: the [widgets] effect does not run syncPhysics.
CommitNoSync(ws, ph) ==
    /\ widgetsRef' = ws
    /\ layout' = computeTargets(ws, gap, orbitPad)
    /\ phy' = ph
    /\ renderPending' = FALSE

\* The body of OrbitalUI and the effects of a commit: widgetsRef.current is
\* assigned, the layout is solved for the view, and the [widgets] effect runs
\* syncPhysics when the list changed.  ws and ph are the list and the motion
\* state the render finds.
Commit(ws, ph) ==
    /\ widgetsRef' = ws
    /\ layout' = computeTargets(ws, gap, orbitPad)
    /\ phy' = IF ws # widgetsRef THEN syncPhysics(ph, ws, paramsRef) ELSE ph
    /\ renderPending' = FALSE

\* React renders the updates a tick queued (setBreathe, setWidgets, setTick).
Render ==
    /\ mounted
    /\ UNCHANGED <<lastEvent, swapAge, breatheSpeed, frameRef, rafQueue, mounted>>
    /\ UNCHANGED editorVars
    /\ renderPending
    /\ Commit(widgets, phy)
    /\ UNCHANGED <<widgets, gap, orbitPad, paramsRef, drag, mouseRef,
                   reorderClock, timeRef, breathe, uid, targets, events>>

\* Mutant of MouseDown: the button is not looked at.
MouseDownAnyButton(id, button, pt) ==
    /\ mounted
    /\ UNCHANGED <<swapAge, breatheSpeed, frameRef, rafQueue, mounted>>
    /\ UNCHANGED editorVars
    /\ lastEvent' = [kind |-> "down", button |-> button,
                     x |-> pt[1], y |-> pt[2]]
    /\ id \in Ids(widgetsRef)
    /\ events < MaxEvents
    /\ events' = events + 1
    /\ LET p == IF id \in DOMAIN phy THEN phy[id] ELSE [x |-> 0, y |-> 0]
       IN  /\ drag' = [active |-> TRUE, id |-> id,
                       startX |-> pt[1], startY |-> pt[2],
                       offsetX |-> p.x, offsetY |-> p.y,
                       moved |-> FALSE]
           /\ mouseRef' = [x |-> p.x, y |-> p.y]
    /\ UNCHANGED <<widgets, widgetsRef, gap, orbitPad, paramsRef, phy,
                   reorderClock, timeRef, breathe, uid, renderPending, layout,
                   targets>>

\* Mutant of MouseDown: the tracked pointer position is left as the last
\* session set it.
MouseDownKeepsTracked(id, button, pt) ==
    /\ mounted
    /\ UNCHANGED <<swapAge, breatheSpeed, frameRef, rafQueue, mounted>>
    /\ UNCHANGED editorVars
    /\ lastEvent' = [kind |-> "down", button |-> button,
                     x |-> pt[1], y |-> pt[2]]
    /\ id \in Ids(widgetsRef)
    /\ events < MaxEvents
    /\ events' = events + 1
    /\ IF button # 0
       THEN UNCHANGED drag
       ELSE LET p == IF id \in DOMAIN phy THEN phy[id] ELSE [x |-> 0, y |-> 0]
            IN  drag' = [active |-> TRUE, id |-> id,
                         startX |-> pt[1], startY |-> pt[2],
                         offsetX |-> p.x, offsetY |-> p.y,
                         moved |-> FALSE]
    /\ UNCHANGED <<widgets, widgetsRef, gap, orbitPad, paramsRef, phy, mouseRef,
                   reorderClock, timeRef, breathe, uid, renderPending, layout,
                   targets>>

\* ---------------------------------------------------------- pointer input
\* onWidgetMouseDown(id, e) with e.button = button, e.clientX/Y = pt.
MouseDown(id, button, pt) ==
    /\ mounted
    /\ UNCHANGED <<swapAge, breatheSpeed, frameRef, rafQueue, mounted>>
    /\ UNCHANGED editorVars
    /\ lastEvent' = [kind |-> "down", button |-> button,
                     x |-> pt[1], y |-> pt[2]]
    /\ id \in Ids(widgetsRef)
    /\ events < MaxEvents
    /\ events' = events + 1
    /\ IF button # 0
       THEN UNCHANGED <<drag, mouseRef>>
       ELSE LET p == IF id \in DOMAIN phy THEN phy[id] ELSE [x |-> 0, y |-> 0]
            IN  /\ drag' = [active |-> TRUE, id |-> id,
                            startX |-> pt[1], startY |-> pt[2],
                            offsetX |-> p.x, offsetY |-> p.y,
                            moved |-> FALSE]
                /\ mouseRef' = [x |-> p.x, y |-> p.y]
    /\ UNCHANGED <<widgets, widgetsRef, gap, orbitPad, paramsRef, phy,
                   reorderClock, timeRef, breathe, uid, renderPending, layout,
                   targets>>

\* Math.hypot(dx, dy) > 5, dx and dy in whole pixels.
MoveThreshold == 5
BeyondThreshold(dx, dy) == dx * dx + dy * dy > MoveThreshold * MoveThreshold

\* Mutant of MouseMove: the moved flag follows the current distance from the
\* press point.
MouseMoveMovedNow(pt) ==
    /\ mounted
    /\ UNCHANGED <<swapAge, breatheSpeed, frameRef, rafQueue, mounted>>
    /\ UNCHANGED editorVars
    /\ lastEvent' = [kind |-> "move", button |-> 0, x |-> pt[1], y |-> pt[2]]
    /\ events < MaxEvents
    /\ events' = events + 1
    /\ IF ~drag.active
       THEN UNCHANGED <<drag, mouseRef>>
       ELSE LET dx == pt[1] - drag.startX
                dy == pt[2] - drag.startY
            IN  /\ drag' = [drag EXCEPT !.moved = BeyondThreshold(dx, dy)]
                /\ mouseRef' = [x |-> drag.offsetX + dx * LS,
                                y |-> drag.offsetY + dy * LS]
    /\ UNCHANGED <<widgets, widgetsRef, gap, orbitPad, paramsRef, phy,
                   reorderClock, timeRef, breathe, uid, renderPending, layout,
                   targets>>

\* onMove(e) with e.clientX/Y = pt.
MouseMove(pt) ==
    /\ mounted
    /\ UNCHANGED <<swapAge, breatheSpeed, frameRef, rafQueue, mounted>>
    /\ UNCHANGED editorVars
    /\ lastEvent' = [kind |-> "move", button |-> 0, x |-> pt[1], y |-> pt[2]]
    /\ events < MaxEvents
    /\ events' = events + 1
    /\ IF ~drag.active
       THEN UNCHANGED <<drag, mouseRef>>
       ELSE LET dx == pt[1] - drag.startX
                dy == pt[2] - drag.startY
            IN  /\ drag' = IF BeyondThreshold(dx, dy)
                           THEN [drag EXCEPT !.moved = TRUE] ELSE drag
                /\ mouseRef' = [x |-> drag.offsetX + dx * LS,
                                y |-> drag.offsetY + dy * LS]
    /\ UNCHANGED <<widgets, widgetsRef, gap, orbitPad, paramsRef, phy,
                   reorderClock, timeRef, breathe, uid, renderPending, layout,
                   targets>>

\* Mutant of MouseUp: the release of a session that moved is treated as a
\* click too.
MouseUpAlwaysClick ==
    /\ mounted
    /\ UNCHANGED <<swapAge, breatheSpeed, frameRef, rafQueue, mounted>>
    /\ UNCHANGED editorVars
    /\ lastEvent' = [NoEvent EXCEPT !.kind = "up"]
    /\ events < MaxEvents
    /\ events' = events + 1
    /\ IF ~drag.active
       THEN UNCHANGED <<widgets, widgetsRef, phy, drag, renderPending, layout>>
       ELSE /\ drag' = NullDrag
            /\ widgets' = ClickUpd(widgets, drag.id)
            /\ Commit(widgets', Ripple(phy, widgets, drag.id))
    /\ UNCHANGED <<gap, orbitPad, paramsRef, mouseRef, reorderClock, timeRef,
                   breathe, uid, targets>>

\* onUp(): ends the session; a session that never moved is a click, whose
\* updater cycles the size and applies the ripple, and React renders at once.
MouseUp ==
    /\ mounted
    /\ UNCHANGED <<swapAge, breatheSpeed, frameRef, rafQueue, mounted>>
    /\ UNCHANGED editorVars
    /\ lastEvent' = [NoEvent EXCEPT !.kind = "up"]
    /\ events < MaxEvents
    /\ events' = events + 1
    /\ IF ~drag.active
       THEN UNCHANGED <<widgets, widgetsRef, phy, drag, renderPending, layout>>
       ELSE /\ drag' = NullDrag
            /\ IF drag.moved
               THEN UNCHANGED <<widgets, widgetsRef, phy, renderPending, layout>>
               ELSE /\ widgets' = ClickUpd(widgets, drag.id)
                    /\ Commit(widgets', Ripple(phy, widgets, drag.id))
    /\ UNCHANGED <<gap, orbitPad, paramsRef, mouseRef, reorderClock, timeRef,
                   breathe, uid, targets>>

\* Mutant of AddWidget: the updater does not look at the number of items.
AddWidgetNoCap ==
    /\ mounted
    /\ UNCHANGED <<swapAge, breatheSpeed, frameRef, rafQueue, mounted>>
    /\ UNCHANGED editorVars
    /\ events < MaxEvents
    /\ events' = events + 1
    /\ lastEvent' = [NoEvent EXCEPT !.kind = "add"]
    /\ uid' = uid + 1
    /\ widgets' = Append(Reindex(SortByOrder(widgets), Len(widgets)),
                         makeWidget(uid + 1, Len(widgets), NewSizeIndex))
    /\ Commit(widgets', phy)
    /\ UNCHANGED <<gap, orbitPad, paramsRef, drag, mouseRef, reorderClock,
                   timeRef, breathe, targets>>

\* ---------------------------------------------------- structural events
\* addWidget(): the + button (disabled at 16 items); React renders at once.
AddWidget ==
    /\ mounted
    /\ UNCHANGED <<swapAge, breatheSpeed, frameRef, rafQueue, mounted>>
    /\ UNCHANGED editorVars
    /\ events < MaxEvents
    /\ IF Len(widgets) >= MaxWidgets
       THEN UNCHANGED <<widgets, widgetsRef, phy, uid, renderPending, layout,
                        events, lastEvent>>
       ELSE /\ events' = events + 1
            /\ lastEvent' = [NoEvent EXCEPT !.kind = "add"]
            /\ uid' = uid + 1
            /\ widgets' = AddUpd(widgets, uid + 1)
            /\ Commit(widgets', phy)
    /\ UNCHANGED <<gap, orbitPad, paramsRef, drag, mouseRef, reorderClock,
                   timeRef, breathe, targets>>

\* delete phy.current[removed.id]
DeletePhy(ph, id) == [k \in DOMAIN ph \ {id} |-> ph[k]]

\* removeWidget(): the - button (disabled at 1 item); React renders at once.
RemoveWidget ==
    /\ mounted
    /\ UNCHANGED <<swapAge, breatheSpeed, frameRef, rafQueue, mounted>>
    /\ UNCHANGED editorVars
    /\ events < MaxEvents
    /\ IF Len(widgets) <= MinWidgets
       THEN UNCHANGED <<widgets, widgetsRef, phy, renderPending, layout, events, lastEvent>>
       ELSE /\ events' = events + 1
            /\ lastEvent' = [NoEvent EXCEPT !.kind = "remove"]
            /\ widgets' = RemoveUpd(widgets)
            /\ Commit(widgets', DeletePhy(phy, Removed(widgets).id))
    /\ UNCHANGED <<gap, orbitPad, paramsRef, drag, mouseRef, reorderClock,
                   timeRef, breathe, uid, targets>>

\* ------------------------------------------------------------ the RAF loop
\* Math.pow(damping, dt) for a whole dt, in 1/PS.
RECURSIVE Pow(_, _)
Pow(d, n) == IF n = 0 THEN PS ELSE RDiv(Pow(d, n - 1) * d, PS)

\* ((t.angle - dragAngle + Math.PI * 3) % (Math.PI * 2)) - Math.PI, then abs.
AngleDiff(angle, dragAngle) ==
    Abs(JsRem(angle - dragAngle + 3 * PiA, TwoPiA) - PiA)

\* Math.PI / ws.length * 0.9
SwapThreshold(n) == RDiv(PiA * 9, n * 10)

\* Mutant of ReorderCheck: the cooldown is not looked at.
ReorderCheckNoCooldown(ws, tg, ph, dr, clock) ==
    LET id    == dr.id
        live  == dr.active /\ dr.moved
                 /\ id \in DOMAIN ph /\ id \in Ids(ws)
        dw    == FindById(ws, id)
        dragAngle == Atan2(ph[id].y, ph[id].x)
        cands == (DOMAIN tg \ {id}) \cap Ids(ws)
        Diff(c) == AngleDiff(tg[c].angle, dragAngle)
        best  == CHOOSE c \in cands : \A d \in cands :
                    Diff(c) < Diff(d) \/ (Diff(c) = Diff(d) /\ c <= d)
    IN  IF live /\ cands # {}
        THEN [swap      |-> /\ FindById(ws, best).order # dw.order
                            /\ Diff(best) < SwapThreshold(Len(ws)),
              id        |-> id,
              bestOrder |-> FindById(ws, best).order,
              dwOrder   |-> dw.order]
        ELSE [swap |-> FALSE, id |-> id, bestOrder |-> 0, dwOrder |-> 0]

\* Mutant of ReorderCheck: a pressed session is enough, moved or not.
ReorderCheckPressed(ws, tg, ph, dr, clock) ==
    LET id    == dr.id
        live  == dr.active /\ clock = 0
                 /\ id \in DOMAIN ph /\ id \in Ids(ws)
        dw    == FindById(ws, id)
        dragAngle == Atan2(ph[id].y, ph[id].x)
        cands == (DOMAIN tg \ {id}) \cap Ids(ws)
        Diff(c) == AngleDiff(tg[c].angle, dragAngle)
        best  == CHOOSE c \in cands : \A d \in cands :
                    Diff(c) < Diff(d) \/ (Diff(c) = Diff(d) /\ c <= d)
    IN  IF live /\ cands # {}
        THEN [swap      |-> /\ FindById(ws, best).order # dw.order
                            /\ Diff(best) < SwapThreshold(Len(ws)),
              id        |-> id,
              bestOrder |-> FindById(ws, best).order,
              dwOrder   |-> dw.order]
        ELSE [swap |-> FALSE, id |-> id, bestOrder |-> 0, dwOrder |-> 0]

\* The reorder check of one tick.  Object.entries(targets) enumerates the
\* integer keys in ascending order and `diff < bestDist` keeps the first of
\* several equally near candidates.  The result says whether the swap is
\* triggered and with which arguments.
ReorderCheck(ws, tg, ph, dr, clock) ==
    LET id    == dr.id
        live  == dr.active /\ dr.moved /\ clock = 0
                 /\ id \in DOMAIN ph /\ id \in Ids(ws)
        dw    == FindById(ws, id)
        dragAngle == Atan2(ph[id].y, ph[id].x)
        cands == (DOMAIN tg \ {id}) \cap Ids(ws)
        Diff(c) == AngleDiff(tg[c].angle, dragAngle)
        best  == CHOOSE c \in cands : \A d \in cands :
                    Diff(c) < Diff(d) \/ (Diff(c) = Diff(d) /\ c <= d)
    IN  IF live /\ cands # {}
        THEN [swap      |-> /\ FindById(ws, best).order # dw.order
                            /\ Diff(best) < SwapThreshold(Len(ws)),
              id        |-> id,
              bestOrder |-> FindById(ws, best).order,
              dwOrder   |-> dw.order]
        ELSE [swap |-> FALSE, id |-> id, bestOrder |-> 0, dwOrder |-> 0]

\* Mutant of SpringStep: the velocity is not damped.
SpringStepUndamped(pp, tgt, p, dt) ==
    LET dx == tgt.x - pp.x
        dy == tgt.y - pp.y
        vx == pp.vx + RDiv(dx * p.stiffness * dt, PS)
        vy == pp.vy + RDiv(dy * p.stiffness * dt, PS)
    IN  [x |-> pp.x + vx, y |-> pp.y + vy, vx |-> vx, vy |-> vy]

\* The spring step of one item that is not dragged.
SpringStep(pp, tgt, p, dt) ==
    LET dx == tgt.x - pp.x
        dy == tgt.y - pp.y
        vx == RDiv((pp.vx + RDiv(dx * p.stiffness * dt, PS)) * Pow(p.damping, dt), PS)
        vy == RDiv((pp.vy + RDiv(dy * p.stiffness * dt, PS)) * Pow(p.damping, dt), PS)
    IN  [x |-> pp.x + vx, y |-> pp.y + vy, vx |-> vx, vy |-> vy]

\* The integrate pass over ws.
Integrate(ws, tg, ph, dr, mouse, p, dt) ==
    [k \in DOMAIN ph |->
        IF k \notin Ids(ws) THEN ph[k]
        ELSE IF dr.active /\ dr.id = k
             THEN [x |-> mouse.x, y |-> mouse.y, vx |-> 0, vy |-> 0]
        ELSE IF k \notin DOMAIN tg THEN ph[k]
        ELSE SpringStep(ph[k], tg[k], p, dt)]

\* The velocity change one item (a) takes from one partner (b) in the
\* repulsion pass; sa and sb are their size indexes.  A distance of 0 is
\* replaced by 0.001, which leaves the direction (dx / dist, dy / dist) = (0, 0).
\* The rounded root of d2 is below minDist exactly when d2 <= minDist^2 - minDist,
\* so the root is only taken of overlapping pairs.
Impulse(a, b, sa, sb, p, dt) ==
    LET dx      == a.x - b.x
        dy      == a.y - b.y
        d2      == dx * dx + dy * dy
        minDist == HalfDiag(sa) + HalfDiag(sb) + RDiv(p.gap * LS, 2)
    IN  IF d2 = 0 \/ d2 > minDist * minDist - minDist THEN [vx |-> 0, vy |-> 0]
        ELSE LET dist  == Sqrt(d2)
                 force == RDiv((minDist - dist) * p.repulsion * dt,
                               minDist * (PS \div LS))
             IN  [vx |-> RDiv(dx * force, dist), vy |-> RDiv(dy * force, dist)]

\* The sum of the impulses item ws[i] takes from the items ws[1..n].
RECURSIVE ImpulseSum(_, _, _, _, _, _)
ImpulseSum(ws, ph, i, n, p, dt) ==
    IF n = 0 THEN [vx |-> 0, vy |-> 0]
    ELSE LET rest == ImpulseSum(ws, ph, i, n - 1, p, dt)
         IN  IF n = i \/ ws[n].id \notin DOMAIN ph THEN rest
             ELSE LET one == Impulse(ph[ws[i].id], ph[ws[n].id],
                                     ws[i].sizeIndex, ws[n].sizeIndex, p, dt)
                  IN  [vx |-> rest.vx + one.vx, vy |-> rest.vy + one.vy]

\* Mutant of Repulsion: the dragged item takes impulses like any other item.
RepulsionAll(ws, ph, dr, p, dt) ==
    [k \in DOMAIN ph |->
        IF k \notin Ids(ws) THEN ph[k]
        ELSE LET i == CHOOSE j \in 1 .. Len(ws) : ws[j].id = k
                 d == ImpulseSum(ws, ph, i, Len(ws), p, dt)
             IN  [ph[k] EXCEPT !.vx = @ + d.vx, !.vy = @ + d.vy]]

\* The repulsion pass over all pairs of ws: positions are only read, and the
\* velocity of the dragged item is left alone.
Repulsion(ws, ph, dr, p, dt) ==
    [k \in DOMAIN ph |->
        IF k \notin Ids(ws) \/ (dr.active /\ dr.id = k) THEN ph[k]
        ELSE LET i == CHOOSE j \in 1 .. Len(ws) : ws[j].id = k
                 d == ImpulseSum(ws, ph, i, Len(ws), p, dt)
             IN  [ph[k] EXCEPT !.vx = @ + d.vx, !.vy = @ + d.vy]]

\* Math.sin(timeRef.current * paramsRef.current.breatheSpeed ?? 0.6), in 1/AS:
\* the product is taken first, and a number times undefined is NaN, which ??
\* lets through.
Breathe(time, speed) ==
    IF speed = Undefined THEN NaN ELSE Sin(time * speed * (AS \div PS))

\* The browser runs the callback of one of the frame requests it holds, and the
\* callback ends with frameRef.current = requestAnimationFrame(loop), whose
\* handle is the next one the browser hands out.
NextFrameRequested ==
    /\ \E h \in rafQueue : rafQueue' = (rafQueue \ {h}) \cup {frameRef + 1}
    /\ frameRef' = frameRef + 1

\* Mutant of Frame: the integrate and repulsion passes use the list and the
\* targets as they are after the swap of this tick.
FrameSwapFirst(dt) ==
    /\ ~renderPending
    /\ LET p  == paramsRef
           ws == widgetsRef
           tg == computeTargets(ws, p.gap, p.orbitPad).targets
           clock == Max(0, reorderClock - 1)
           r  == ReorderCheck(ws, tg, phy, drag, clock)
           ws2 == IF r.swap THEN SwapUpd(ws, r.id, r.bestOrder, r.dwOrder) ELSE ws
           tg2 == computeTargets(ws2, p.gap, p.orbitPad).targets
       IN  /\ timeRef' = timeRef + dt
           /\ targets' = tg2
           /\ breathe' = Breathe(timeRef + dt, p.breatheSpeed)
           /\ widgets' = IF r.swap
                         THEN SwapUpd(widgets, r.id, r.bestOrder, r.dwOrder)
                         ELSE widgets
           /\ reorderClock' = IF r.swap THEN CooldownTicks ELSE clock
           /\ swapAge' = IF r.swap THEN 0
                          ELSE IF swapAge = Never THEN Never ELSE swapAge + 1
           /\ phy' = Repulsion(ws2, Integrate(ws2, tg2, phy, drag, mouseRef, p, dt),
                               drag, p, dt)
    /\ renderPending' = TRUE
    /\ NextFrameRequested
    /\ UNCHANGED editorVars
    /\ UNCHANGED <<widgetsRef, gap, orbitPad, paramsRef, drag, mouseRef, uid,
                   layout, events, lastEvent, breatheSpeed, mounted>>

\* One run of loop(now) with normalised frame duration dt.  React renders a
\* tick's updates before the browser runs the next frame callback.
Frame(dt) ==
    /\ ~renderPending
    /\ LET p  == paramsRef
           ws == widgetsRef
           tg == computeTargets(ws, p.gap, p.orbitPad).targets
           clock == Max(0, reorderClock - 1)
           r  == ReorderCheck(ws, tg, phy, drag, clock)
       IN  /\ timeRef' = timeRef + dt
           /\ targets' = tg
           /\ breathe' = Breathe(timeRef + dt, p.breatheSpeed)
           /\ widgets' = IF r.swap
                         THEN SwapUpd(widgets, r.id, r.bestOrder, r.dwOrder)
                         ELSE widgets
           /\ reorderClock' = IF r.swap THEN CooldownTicks ELSE clock
           /\ swapAge' = IF r.swap THEN 0
                          ELSE IF swapAge = Never THEN Never ELSE swapAge + 1
           /\ phy' = Repulsion(ws, Integrate(ws, tg, phy, drag, mouseRef, p, dt),
                               drag, p, dt)
    /\ renderPending' = TRUE
    /\ NextFrameRequested
    /\ UNCHANGED editorVars
    /\ UNCHANGED <<widgetsRef, gap, orbitPad, paramsRef, drag, mouseRef, uid,
                   layout, events, lastEvent, breatheSpeed, mounted>>

\* A frame within the time the model follows under arbitrary input.
Tick(dt) ==
    /\ timeRef + dt <= MaxTime
    /\ Frame(dt)

\* ------------------------------------------------------------ the program
\* Array.from({ length: 8 }, (_, i) => makeWidget(i, i % SIZES.length))
InitialWidgets ==
    [i \in 1 .. InitialCount |-> makeWidget(i, i - 1, (i - 1) % NumSizes)]

InitialParams ==
    [gap |-> DefaultGap, orbitPad |-> DefaultOrbitPad,
     stiffness |-> DefaultStiffness, damping |-> DefaultDamping,
     repulsion |-> DefaultRepulsion, breatheSpeed |-> DefaultBreatheSpeed]

\* The state after the component has mounted and its effects have run.
EngineAtMount ==
    /\ widgets = InitialWidgets
    /\ widgetsRef = InitialWidgets
    /\ gap = DefaultGap
    /\ orbitPad = DefaultOrbitPad
    /\ paramsRef = InitialParams
    /\ phy = syncPhysics(EmptyTargets, InitialWidgets, InitialParams)
    /\ drag = NullDrag
    /\ mouseRef = [x |-> 0, y |-> 0]
    /\ reorderClock = 0
    /\ timeRef = 0
    /\ breathe = 0
    /\ uid = InitialCount
    /\ renderPending = FALSE
    /\ layout = computeTargets(InitialWidgets, DefaultGap, DefaultOrbitPad)
    /\ targets = EmptyTargets
    /\ events = 0
    /\ lastEvent = NoEvent
    /\ swapAge = Never
    /\ breatheSpeed = DefaultBreatheSpeed
    /\ frameRef = FirstHandle
    /\ rafQueue = {FirstHandle}
    /\ mounted = TRUE

\* Both components have mounted.
Init == EngineAtMount /\ EditorAtMount

Next ==
    \/ \E dt \in DtSet : Tick(dt)
    \/ Render
    \/ \E id \in PressIds, b \in Buttons, pt \in PressPts : MouseDown(id, b, pt)
    \/ \E pt \in MovePts : MouseMove(pt)
    \/ MouseUp
    \/ AddWidget
    \/ RemoveWidget

Spec == Init /\ [][Next]_vars

\* -------------------------------------------------- the engine running on
\* Beyond MaxTime, once the input budget is used up, the model follows the loop
\* for as long as a cooldown lasts, up to MaxRunOn ticks.
RunOn(dt) ==
    /\ events = MaxEvents
    /\ reorderClock > 0
    /\ timeRef + dt > MaxTime
    /\ timeRef + dt <= MaxRunOn
    /\ Frame(dt)

NextCD ==
    \/ Next
    \/ \E dt \in DtSet : RunOn(dt)

SpecCD == Init /\ [][NextCD]_vars

\* ------------------------------------------------------------ the sliders
\* The effect on [gap, orbitPad, stiffness, damping, repulsion] replaces
\* paramsRef.current by a fresh object of these five values.
FreshParams(g, pad) ==
    [gap |-> g, orbitPad |-> pad, stiffness |-> paramsRef.stiffness,
     damping |-> paramsRef.damping, repulsion |-> paramsRef.repulsion,
     breatheSpeed |-> Undefined]

\* The Widget Gap slider: setGap(g), the render and the paramsRef effect.
SetGap(g) ==
    /\ mounted
    /\ UNCHANGED <<lastEvent, swapAge, breatheSpeed, frameRef, rafQueue, mounted>>
    /\ UNCHANGED editorVars
    /\ g # gap
    /\ gap' = g
    /\ layout' = computeTargets(widgets, g, orbitPad)
    /\ paramsRef' = FreshParams(g, orbitPad)
    /\ UNCHANGED <<widgets, widgetsRef, orbitPad, phy, drag, mouseRef,
                   reorderClock, timeRef, breathe, uid, renderPending, targets,
                   events>>

\* The Orbit Padding slider: setOrbitPad(pad), the render and the effect.
SetOrbitPad(pad) ==
    /\ mounted
    /\ UNCHANGED <<lastEvent, swapAge, breatheSpeed, frameRef, rafQueue, mounted>>
    /\ UNCHANGED editorVars
    /\ pad # orbitPad
    /\ orbitPad' = pad
    /\ layout' = computeTargets(widgets, gap, pad)
    /\ paramsRef' = FreshParams(gap, pad)
    /\ UNCHANGED <<widgets, widgetsRef, gap, phy, drag, mouseRef,
                   reorderClock, timeRef, breathe, uid, renderPending, targets,
                   events>>

\* The Speed slider: setBreatheSpeed(v), the render and the effect on
\* [breatheSpeed], which patches the property into the current paramsRef object.
SetBreatheSpeed(v) ==
    /\ mounted
    /\ v # breatheSpeed
    /\ breatheSpeed' = v
    /\ paramsRef' = [paramsRef EXCEPT !.breatheSpeed = v]
    /\ UNCHANGED editorVars
    /\ UNCHANGED <<widgets, widgetsRef, gap, orbitPad, phy, drag, mouseRef,
                   reorderClock, timeRef, breathe, uid, renderPending, layout,
                   targets, events, lastEvent, swapAge, frameRef, rafQueue, mounted>>

\* ------------------------------------------- the engine under the sliders
NextCfg ==
    \/ \E dt \in DtSet : Tick(dt)
    \/ Render
    \/ \E g \in GapSet : SetGap(g)
    \/ \E pad \in PadSet : SetOrbitPad(pad)
    \/ \E v \in SpeedSet : SetBreatheSpeed(v)

SpecCfg == Init /\ [][NextCfg]_vars

\* ------------------------------------- the engine with a slider being moved
\* The value the Widget Gap slider is moved to (its minimum).
GapMoves == {8}

NextIn ==
    \/ Next
    \/ \E g \in GapMoves : SetGap(g)

SpecIn == Init /\ [][NextIn]_vars

\* ------------------------------ the engine with the pointer coming back
\* The item a session is already open on, and the motion state at mount.
PressedId == 8
MountPhy == syncPhysics(EmptyTargets, InitialWidgets, InitialParams)

\* The state right after mount and a primary press on item PressedId; the
\* input budget counts the events after the press.
InitPressed ==
    /\ widgets = InitialWidgets
    /\ widgetsRef = InitialWidgets
    /\ gap = DefaultGap
    /\ orbitPad = DefaultOrbitPad
    /\ paramsRef = InitialParams
    /\ phy = MountPhy
    /\ \E pt \in PressPts :
          /\ drag = [active |-> TRUE, id |-> PressedId,
                     startX |-> pt[1], startY |-> pt[2],
                     offsetX |-> MountPhy[PressedId].x,
                     offsetY |-> MountPhy[PressedId].y,
                     moved |-> FALSE]
          /\ lastEvent = [kind |-> "down", button |-> 0,
                          x |-> pt[1], y |-> pt[2]]
    /\ mouseRef = [x |-> MountPhy[PressedId].x, y |-> MountPhy[PressedId].y]
    /\ reorderClock = 0
    /\ timeRef = 0
    /\ breathe = 0
    /\ uid = InitialCount
    /\ renderPending = FALSE
    /\ layout = computeTargets(InitialWidgets, DefaultGap, DefaultOrbitPad)
    /\ targets = EmptyTargets
    /\ events = 0
    /\ swapAge = Never
    /\ breatheSpeed = DefaultBreatheSpeed
    /\ frameRef = FirstHandle
    /\ rafQueue = {FirstHandle}
    /\ mounted = TRUE
    /\ EditorAtMount

\* The pointer is also moved back to the point it was pressed at.
NextBack ==
    \/ Next
    \/ \E pt \in PressPts : MouseMove(pt)

SpecBack == InitPressed /\ [][NextBack]_vars

\* ------------------------------------------------- the layout solver alone
\* Item lists of a given length: ids 1..n in array order, every assignment of
\* sizes, and the orders 0..n-1 in every rotation (so the array is sorted by
\* order in one list and unsorted in the others).  The empty list has the one
\* empty assignment.
Rotations(n) ==
    {[i \in 1 .. n |-> (i - 1 + k) % n] : k \in 0 .. Max(n - 1, 0)}

ListsOfLen(n) ==
    {[i \in 1 .. n |-> makeWidget(i, o[i], sz[i])] :
        o \in Rotations(n), sz \in [1 .. n -> SizeIndexes]}

InputLists == UNION {ListsOfLen(n) : n \in 0 .. MaxLen}

\* The view of one item list under some slider setting, not yet solved.
InitCT ==
    /\ widgets \in InputLists
    /\ widgetsRef = widgets
    /\ gap \in GapSet
    /\ orbitPad \in PadSet
    /\ paramsRef = [InitialParams EXCEPT !.gap = gap, !.orbitPad = orbitPad]
    /\ phy = EmptyTargets
    /\ drag = NullDrag
    /\ mouseRef = [x |-> 0, y |-> 0]
    /\ reorderClock = 0
    /\ timeRef = 0
    /\ breathe = 0
    /\ uid = Len(widgets)
    /\ renderPending = FALSE
    /\ layout = NoLayout
    /\ targets = EmptyTargets
    /\ events = 0
    /\ lastEvent = NoEvent
    /\ swapAge = Never
    /\ breatheSpeed = DefaultBreatheSpeed
    /\ frameRef = FirstHandle
    /\ rafQueue = {FirstHandle}
    /\ mounted = TRUE
    /\ EditorAtMount

\* const { targets, radius } = computeTargets(widgets, gap, orbitPad) in the
\* body of the component.
SolveLayout ==
    /\ mounted
    /\ UNCHANGED <<lastEvent, swapAge, breatheSpeed, frameRef, rafQueue, mounted>>
    /\ UNCHANGED editorVars
    /\ layout = NoLayout
    /\ layout' = computeTargets(widgets, gap, orbitPad)
    /\ UNCHANGED <<widgets, widgetsRef, gap, orbitPad, paramsRef, phy, drag,
                   mouseRef, reorderClock, timeRef, breathe, uid, renderPending,
                   targets, events>>

NextCT ==
    \/ SolveLayout
    \/ \E g \in GapSet : SetGap(g)
    \/ \E pad \in PadSet : SetOrbitPad(pad)

SpecCT == InitCT /\ [][NextCT]_vars

\* ------------------------------------------------ the motion-state sync alone
\* The entry an item had before the sync: a place and a velocity of its own.
OldEntry(id) ==
    [x |-> 100 * id, y |-> 0 - 50 * id, vx |-> 3 * id, vy |-> 0 - id]

\* Motion-state tables found by the sync: entries for any of the ids of the
\* longest list and for one id no list holds.
SyncTables ==
    {[id \in D |-> OldEntry(id)] : D \in SUBSET (1 .. MaxLen + 1)}

\* A list has been set and its render is pending: the [widgets] effect has not
\* run on it yet.
InitSync ==
    /\ widgets \in UNION {ListsOfLen(n) : n \in 1 .. MaxLen}
    /\ widgetsRef = <<>>
    /\ gap = DefaultGap
    /\ orbitPad = DefaultOrbitPad
    /\ paramsRef = InitialParams
    /\ phy \in SyncTables
    /\ drag = NullDrag
    /\ mouseRef = [x |-> 0, y |-> 0]
    /\ reorderClock = 0
    /\ timeRef = 0
    /\ breathe = 0
    /\ uid = MaxLen + 1
    /\ renderPending = TRUE
    /\ layout = NoLayout
    /\ targets = EmptyTargets
    /\ events = 0
    /\ lastEvent = NoEvent
    /\ swapAge = Never
    /\ breatheSpeed = DefaultBreatheSpeed
    /\ frameRef = FirstHandle
    /\ rafQueue = {FirstHandle}
    /\ mounted = TRUE
    /\ EditorAtMount

NextSync == Render

SpecSync == InitSync /\ [][NextSync]_vars

\* ---------------------------------------------- the collision step alone
\* Positions of two items, in tenths of a pixel: the same point (coincident),
\* points 30 to 50 px apart (overlapping for every pair of sizes) and a point
\* more than 400 px away (apart for every pair of sizes).
RepPts == {<<0, 0>>, <<300, 0>>, <<0, 0 - 400>>, <<3000, 3000>>}

\* Two live items at rest at positions drawn from RepPts, no session.
InitRep ==
    /\ widgets \in ListsOfLen(2)
    /\ widgetsRef = widgets
    /\ gap \in GapSet
    /\ orbitPad = DefaultOrbitPad
    /\ paramsRef = [InitialParams EXCEPT !.gap = gap]
    /\ phy \in {[id \in {1, 2} |->
                    [x |-> pt[id][1], y |-> pt[id][2], vx |-> 0, vy |-> 0]] :
                 pt \in [{1, 2} -> RepPts]}
    /\ drag = NullDrag
    /\ mouseRef = [x |-> 0, y |-> 0]
    /\ reorderClock = 0
    /\ timeRef = 0
    /\ breathe = 0
    /\ uid = 2
    /\ renderPending = FALSE
    /\ layout = computeTargets(widgets, gap, orbitPad)
    /\ targets = EmptyTargets
    /\ events = 0
    /\ lastEvent = NoEvent
    /\ swapAge = Never
    /\ breatheSpeed = DefaultBreatheSpeed
    /\ frameRef = FirstHandle
    /\ rafQueue = {FirstHandle}
    /\ mounted = TRUE
    /\ EditorAtMount

\* The repulsion pass of one frame of duration dt, on its own.
Collide(dt) ==
    /\ ~renderPending
    /\ phy' = Repulsion(widgetsRef, phy, drag, paramsRef, dt)
    /\ renderPending' = TRUE
    /\ UNCHANGED editorVars
    /\ UNCHANGED <<widgets, widgetsRef, gap, orbitPad, paramsRef, drag, mouseRef,
                   reorderClock, timeRef, breathe, uid, layout, targets, events,
                   lastEvent, swapAge, breatheSpeed, frameRef, rafQueue, mounted>>

NextRep == \E dt \in DtSet : Collide(dt)

SpecRep == InitRep /\ [][NextRep]_vars

\* ------------------------------------------------- one item on its spring
\* Cap on elapsed time while an item settles (Settle).
MaxSettle == 60
\* The distance from its target, in tenths of a pixel, under which an item
\* counts as settled.
SettleEps == 20

\* Places, in tenths of a pixel, where an item is released from a drag.
ReleasePts == {<<3500, 2340>>, <<0 - 3000, 2000>>, <<2680, 1790>>}

\* The squared distance of the only item from its target.
Dist2ToTarget ==
    (layout.targets[1].x - phy[1].x) * (layout.targets[1].x - phy[1].x)
        + (layout.targets[1].y - phy[1].y) * (layout.targets[1].y - phy[1].y)

Near == Dist2ToTarget < SettleEps * SettleEps

\* A single item of any size under the default tunables, either as it is
\* spawned (at the centre, with its burst) or at rest where a drag released it;
\* mouseRef is the place it starts from.
InitSpring ==
    /\ widgets \in {<<makeWidget(1, 0, s)>> : s \in SizeIndexes}
    /\ widgetsRef = widgets
    /\ gap = DefaultGap
    /\ orbitPad = DefaultOrbitPad
    /\ paramsRef = InitialParams
    /\ mouseRef \in {[x |-> 0, y |-> 0]} \cup {[x |-> pt[1], y |-> pt[2]] : pt \in ReleasePts}
    /\ phy = IF mouseRef = [x |-> 0, y |-> 0]
             THEN syncPhysics(EmptyTargets, widgets, InitialParams)
             ELSE [id \in {1} |-> [x |-> mouseRef.x, y |-> mouseRef.y, vx |-> 0, vy |-> 0]]
    /\ drag = NullDrag
    /\ reorderClock = 0
    /\ timeRef = 0
    /\ breathe = 0
    /\ uid = 1
    /\ renderPending = FALSE
    /\ layout = computeTargets(widgets, gap, orbitPad)
    /\ targets = EmptyTargets
    /\ events = 0
    /\ lastEvent = NoEvent
    /\ swapAge = Never
    /\ breatheSpeed = DefaultBreatheSpeed
    /\ frameRef = FirstHandle
    /\ rafQueue = {FirstHandle}
    /\ mounted = TRUE
    /\ EditorAtMount

\* A frame while the item has not yet been within SettleEps of its target.
Settle(dt) ==
    /\ ~Near
    /\ timeRef + dt <= MaxSettle
    /\ Frame(dt)

NextSpring ==
    \/ \E dt \in DtSet : Settle(dt)
    \/ Render

SpecSpring == InitSpring /\ [][NextSpring]_vars

\* ------------------------------------------------ a drag held in one place
\* Cap on elapsed time while a drag is held (HoldTick): three cooldown periods.
MaxHold == 61

\* Places, in tenths of a pixel, where the pointer holds the dragged item: to
\* the right of, to the left of and under the centre.
HoldPts == {<<2000, 0>>, <<0 - 2000, 0>>, <<0, 2000>>}

\* The motion state of a list whose items are at rest on their targets.
AtRest(ws, g, pad) ==
    LET tg == computeTargets(ws, g, pad).targets
    IN  [id \in Ids(ws) |-> [x |-> tg[id].x, y |-> tg[id].y, vx |-> 0, vy |-> 0]]

\* Two items at rest on their targets; the session of item 1 has moved and the
\* pointer holds the item at one of HoldPts.
InitHold ==
    /\ widgets \in ListsOfLen(2)
    /\ widgetsRef = widgets
    /\ gap = DefaultGap
    /\ orbitPad = DefaultOrbitPad
    /\ paramsRef = InitialParams
    /\ mouseRef \in {[x |-> pt[1], y |-> pt[2]] : pt \in HoldPts}
    /\ phy = [AtRest(widgets, gap, orbitPad) EXCEPT
                 ![1] = [x |-> mouseRef.x, y |-> mouseRef.y, vx |-> 0, vy |-> 0]]
    /\ drag = [active |-> TRUE, id |-> 1, startX |-> 0, startY |-> 0,
               offsetX |-> 0, offsetY |-> 0, moved |-> TRUE]
    /\ reorderClock = 0
    /\ timeRef = 0
    /\ breathe = 0
    /\ uid = 2
    /\ renderPending = FALSE
    /\ layout = computeTargets(widgets, gap, orbitPad)
    /\ targets = EmptyTargets
    /\ events = 0
    /\ lastEvent = NoEvent
    /\ swapAge = Never
    /\ breatheSpeed = DefaultBreatheSpeed
    /\ frameRef = FirstHandle
    /\ rafQueue = {FirstHandle}
    /\ mounted = TRUE
    /\ EditorAtMount

\* A frame while the drag is held.
HoldTick(dt) ==
    /\ timeRef + dt <= MaxHold
    /\ Frame(dt)

NextHold ==
    \/ \E dt \in DtSet : HoldTick(dt)
    \/ Render

SpecHold == InitHold /\ [][NextHold]_vars

\* ------------------------------------------ the engine at the ends of the range
\* The list after n - 8 adds (n >= 8) or 8 - n removes (n <= 8) from the
\* initial list: the items of the initial list in place, the added ones after
\* them with the size of a new item.
ListOfCount(n) ==
    [i \in 1 .. n |->
        IF i <= InitialCount THEN InitialWidgets[i]
        ELSE makeWidget(i, i - 1, NewSizeIndex)]

\* Numbers of items at and next to the two ends of the range.
EdgeCounts ==
    {MinWidgets, MinWidgets + 1, MaxWidgets - 1, MaxWidgets}

\* The items have been added or removed and have come to rest on their
\* targets; no session.
InitEdge ==
    /\ widgets \in {ListOfCount(n) : n \in EdgeCounts}
    /\ widgetsRef = widgets
    /\ gap = DefaultGap
    /\ orbitPad = DefaultOrbitPad
    /\ paramsRef = InitialParams
    /\ phy = AtRest(widgets, gap, orbitPad)
    /\ drag = NullDrag
    /\ mouseRef = [x |-> 0, y |-> 0]
    /\ reorderClock = 0
    /\ timeRef = 0
    /\ breathe = 0
    /\ uid = Max(Len(widgets), InitialCount)
    /\ renderPending = FALSE
    /\ layout = computeTargets(widgets, gap, orbitPad)
    /\ targets = EmptyTargets
    /\ events = 0
    /\ lastEvent = NoEvent
    /\ swapAge = Never
    /\ breatheSpeed = DefaultBreatheSpeed
    /\ frameRef = FirstHandle
    /\ rafQueue = {FirstHandle}
    /\ mounted = TRUE
    /\ EditorAtMount

NextEdge ==
    \/ \E dt \in DtSet : Tick(dt)
    \/ Render
    \/ AddWidget
    \/ RemoveWidget

SpecEdge == InitEdge /\ [][NextEdge]_vars

\* ------------------------------------------------------------- teardown
\* Mutant of Teardown: the cleanup cancels the request made at mount.
TeardownCancelsFirst ==
    /\ mounted
    /\ mounted' = FALSE
    /\ rafQueue' = rafQueue \ {FirstHandle}
    /\ UNCHANGED editorVars
    /\ UNCHANGED <<widgets, widgetsRef, gap, orbitPad, paramsRef, phy, drag,
                   mouseRef, reorderClock, timeRef, breathe, uid, renderPending,
                   layout, targets, events, lastEvent, swapAge, breatheSpeed,
                   frameRef>>

\* The component unmounts: the cleanup of the loop effect runs
\* cancelAnimationFrame(frameRef.current), and the listeners are removed.
Teardown ==
    /\ mounted
    /\ mounted' = FALSE
    /\ rafQueue' = rafQueue \ {frameRef}
    /\ UNCHANGED editorVars
    /\ UNCHANGED <<widgets, widgetsRef, gap, orbitPad, paramsRef, phy, drag,
                   mouseRef, reorderClock, timeRef, breathe, uid, renderPending,
                   layout, targets, events, lastEvent, swapAge, breatheSpeed,
                   frameRef>>

\* One item on its spring, torn down at any moment.
NextTD ==
    \/ NextSpring
    \/ Teardown

SpecTD == InitSpring /\ [][NextTD]_vars

\* ===================================================== the timeline editor
\* ------------------------------------------------------------ lib/utils.ts
\* Strings are sequences of one-character strings.
DigitChars == <<"0", "1", "2", "3", "4", "5", "6", "7", "8", "9">>
IsDigit(c) == \E n \in 1 .. 10 : DigitChars[n] = c

\* String(n) for an integer n >= 0.
RECURSIVE StringOf(_)
StringOf(n) ==
    IF n < 10 THEN <<DigitChars[n + 1]>>
    ELSE Append(StringOf(n \div 10), DigitChars[(n % 10) + 1])

\* s.padStart(len, ch)
RECURSIVE padStart(_, _, _)
padStart(s, len, ch) ==
    IF Len(s) >= len THEN s ELSE padStart(<<ch>> \o s, len, ch)

\* frameToTimecode(frame, fps)
frameToTimecode(frame, rate) ==
    LET totalSeconds == frame \div rate
        hours   == totalSeconds \div 3600
        minutes == (totalSeconds % 3600) \div 60
        seconds == totalSeconds % 60
        frames  == frame % rate
        pad(n)  == padStart(StringOf(n), 2, "0")
    IN  pad(hours) \o <<":">> \o pad(minutes) \o <<":">> \o pad(seconds)
            \o <<":">> \o pad(frames)

\* tc.split(':'), from the character at i on, cur being the part under way; the
\* empty string gives one empty part.
RECURSIVE SplitFrom(_, _, _)
SplitFrom(tc, i, cur) ==
    IF i > Len(tc) THEN <<cur>>
    ELSE IF tc[i] = ":" THEN <<cur>> \o SplitFrom(tc, i + 1, <<>>)
    ELSE SplitFrom(tc, i + 1, Append(cur, tc[i]))

\* The value of a string of digits.
RECURSIVE DecimalValue(_)
DecimalValue(s) ==
    IF s = <<>> THEN 0
    ELSE DecimalValue(SubSeq(s, 1, Len(s) - 1)) * 10
            + (CHOOSE n \in 1 .. 10 : DigitChars[n] = s[Len(s)]) - 1

\* NaN, as the value of a part.
TcNaN == 0 - 1

\* Number(part) for a part without white space, sign, point or exponent: the
\* empty string converts to 0, a string of digits to its value, anything else
\* to NaN.
Number(part) ==
    IF \A i \in 1 .. Len(part) : IsDigit(part[i]) THEN DecimalValue(part)
    ELSE TcNaN

\* timecodeToFrame(tc, fps)
timecodeToFrame(tc, rate) ==
    LET parts == [i \in 1 .. Len(SplitFrom(tc, 1, <<>>)) |->
                     Number(SplitFrom(tc, 1, <<>>)[i])]
    IN  IF Len(parts) # 4 \/ \E i \in 1 .. Len(parts) : parts[i] = TcNaN THEN 0
        ELSE parts[1] * 3600 * rate + parts[2] * 60 * rate
                + parts[3] * rate + parts[4]

\* ------------------------------------------------------------------ App.tsx
\* const MAX_UNDO = 50
MAX_UNDO == 50

\* A row of the timeline; componentId, action, params and spring are left out.
Row(id, frame) == [id |-> id, frame |-> frame]

\* generateId(): an id no row of the list has.
NewId(rs) ==
    CHOOSE n \in 1 .. (Len(rs) + 1) : \A i \in 1 .. Len(rs) : rs[i].id # n

\* What the server answers to the fetch of the timeline.
ServerTimelines ==
    {[fps |-> 30, durationFrames |-> 240, events |-> <<Row(1, 0)>>]}

\* stack.slice(-n) for n > 0
LastOf(stack, n) ==
    IF Len(stack) <= n THEN stack
    ELSE SubSeq(stack, Len(stack) - n + 1, Len(stack))

\* Mutant of PushUndo: the stack is cut to MAX_UNDO snapshots before the push.
PushUndoCutLate(stack, snapshot) == Append(LastOf(stack, MAX_UNDO), snapshot)

\* stack => [...stack.slice(-(MAX_UNDO - 1)), rowsRef.current]
PushUndo(stack, snapshot) == Append(LastOf(stack, MAX_UNDO - 1), snapshot)

\* The engine does not take part in a step of the editor.
EngineIdle ==
    UNCHANGED <<widgets, widgetsRef, gap, orbitPad, paramsRef, phy, drag,
                mouseRef, reorderClock, timeRef, breathe, uid, renderPending,
                layout, targets, swapAge, breatheSpeed, frameRef, rafQueue,
                mounted>>

\* An input event of the editor is delivered, within the budget of events.
Input(kind, budget) ==
    /\ events < budget
    /\ events' = events + 1
    /\ lastEvent' = [NoEvent EXCEPT !.kind = kind]
    /\ EngineIdle

\* A request completes: no input event.
Completion == EngineIdle /\ UNCHANGED <<events, lastEvent>>

\* updateRows(newRows); rowsRef.current is rows, every handler being followed by
\* a render.
updateRows(newRows) ==
    /\ undoStack' = PushUndo(undoStack, rows)
    /\ redoStack' = <<>>
    /\ rows' = newRows
    /\ isDirty' = TRUE

\* addRow(): the + Add Row button.
AddRow(budget) ==
    /\ Input("edit", budget)
    /\ updateRows(Append(rows, Row(NewId(rows), durationFrames \div 2)))
    /\ UNCHANGED <<fps, durationFrames, typed, loading, inFlight, savedRows>>

\* next.splice(index, 0, newRow) for a 0-based index.
InsertAt(rs, index, r) ==
    SubSeq(rs, 1, index) \o <<r>> \o SubSeq(rs, index + 1, Len(rs))

\* rows.filter((_, i) => i !== index) for a 0-based index.
RemoveAt(rs, index) ==
    SubSeq(rs, 1, index) \o SubSeq(rs, index + 2, Len(rs))

\* insertRow(index) of the table.
InsertRow(index, budget) ==
    /\ index \in 0 .. Len(rows)
    /\ Input("edit", budget)
    /\ updateRows(InsertAt(rows, index, Row(NewId(rows), 0)))
    /\ UNCHANGED <<fps, durationFrames, typed, loading, inFlight, savedRows>>

\* deleteRow(index) of the table.
DeleteRow(index, budget) ==
    /\ index \in 0 .. (Len(rows) - 1)
    /\ Input("edit", budget)
    /\ updateRows(RemoveAt(rows, index))
    /\ UNCHANGED <<fps, durationFrames, typed, loading, inFlight, savedRows>>

\* The drop of the row dragged from place src on the row at place index.
MoveRow(src, index, budget) ==
    /\ src \in 0 .. (Len(rows) - 1)
    /\ index \in 0 .. (Len(rows) - 1)
    /\ src # index
    /\ Input("edit", budget)
    /\ updateRows(InsertAt(RemoveAt(rows, src), index, rows[src + 1]))
    /\ UNCHANGED <<fps, durationFrames, typed, loading, inFlight, savedRows>>

\* rows.map(r => r.id === id ? { ...r, ...patch } : r) with patch = { frame }
PatchFrame(rs, id, frame) ==
    [i \in 1 .. Len(rs) |->
        IF rs[i].id = id THEN [rs[i] EXCEPT !.frame = frame] ELSE rs[i]]

\* The change of the frame field of row i (1-based) to the number frame.
SetFrame(i, frame, budget) ==
    /\ i \in 1 .. Len(rows)
    /\ Input("edit", budget)
    /\ updateRows(PatchFrame(rows, rows[i].id, frame))
    /\ UNCHANGED <<fps, durationFrames, typed, loading, inFlight, savedRows>>

\* The change of the timecode field of row i (1-based) to the text tc:
\* const f = timecodeToFrame(e.target.value, fps);
\* if (!isNaN(f) && f >= 0) updateRow(row.id, { frame: f });
TypeTimecode(i, tc, budget) ==
    /\ i \in 1 .. Len(rows)
    /\ Input("type", budget)
    /\ typed' = tc
    /\ LET f == timecodeToFrame(tc, fps)
       IN  IF f >= 0
           THEN updateRows(PatchFrame(rows, rows[i].id, f))
           ELSE UNCHANGED <<rows, undoStack, redoStack, isDirty>>
    /\ UNCHANGED <<fps, durationFrames, loading, inFlight, savedRows>>

\* Mutant of undo: the oldest snapshot is restored.
undoOldest(budget) ==
    /\ Input("undo", budget)
    /\ IF Len(undoStack) = 0
       THEN UNCHANGED <<rows, undoStack, redoStack, isDirty>>
       ELSE /\ redoStack' = Append(redoStack, rows)
            /\ rows' = undoStack[1]
            /\ undoStack' = SubSeq(undoStack, 1, Len(undoStack) - 1)
            /\ isDirty' = TRUE
    /\ UNCHANGED <<fps, durationFrames, typed, loading, inFlight, savedRows>>

\* undo(): Ctrl+Z or the Undo button.
undo(budget) ==
    /\ Input("undo", budget)
    /\ IF Len(undoStack) = 0
       THEN UNCHANGED <<rows, undoStack, redoStack, isDirty>>
       ELSE /\ redoStack' = Append(redoStack, rows)
            /\ rows' = undoStack[Len(undoStack)]
            /\ undoStack' = SubSeq(undoStack, 1, Len(undoStack) - 1)
            /\ isDirty' = TRUE
    /\ UNCHANGED <<fps, durationFrames, typed, loading, inFlight, savedRows>>

\* redo(): Ctrl+Y, Ctrl+Shift+Z or the Redo button.
redo(budget) ==
    /\ Input("redo", budget)
    /\ IF Len(redoStack) = 0
       THEN UNCHANGED <<rows, undoStack, redoStack, isDirty>>
       ELSE /\ undoStack' = PushUndo(undoStack, rows)
            /\ rows' = redoStack[Len(redoStack)]
            /\ redoStack' = SubSeq(redoStack, 1, Len(redoStack) - 1)
            /\ isDirty' = TRUE
    /\ UNCHANGED <<fps, durationFrames, typed, loading, inFlight, savedRows>>

\* save() up to its await: the request carries the rows of the moment.
save(budget) ==
    /\ Input("save", budget)
    /\ inFlight' = inFlight \cup {rows}
    /\ UNCHANGED <<rows, undoStack, redoStack, isDirty, fps, durationFrames,
                   typed, loading, savedRows>>

\* save() after its await, the response being ok: setIsDirty(false).
SaveOk(req) ==
    /\ req \in inFlight
    /\ Completion
    /\ inFlight' = inFlight \ {req}
    /\ savedRows' = req
    /\ isDirty' = FALSE
    /\ UNCHANGED <<rows, undoStack, redoStack, fps, durationFrames, typed,
                   loading>>

\* save() after its await, the response not being ok or the fetch failing.
SaveFailed(req) ==
    /\ req \in inFlight
    /\ Completion
    /\ inFlight' = inFlight \ {req}
    /\ UNCHANGED <<rows, undoStack, redoStack, isDirty, fps, durationFrames,
                   typed, loading, savedRows>>

\* The fetch of the timeline made at mount resolves with data.
LoadArrives(data) ==
    /\ loading
    /\ Completion
    /\ loading' = FALSE
    /\ fps' = data.fps
    /\ durationFrames' = data.durationFrames
    /\ rows' = data.events
    /\ savedRows' = data.events
    /\ UNCHANGED <<undoStack, redoStack, isDirty, typed, inFlight>>

\* The fetch of the timeline made at mount fails: .catch(console.error).
LoadFails ==
    /\ loading
    /\ Completion
    /\ loading' = FALSE
    /\ UNCHANGED <<rows, undoStack, redoStack, isDirty, fps, durationFrames,
                   typed, inFlight, savedRows>>

\* ----------------------------------------------- the editor under its inputs
\* Cap on the number of input events of the editor.
MaxEdits == 4
\* Frames entered in the frame field and texts entered in the timecode field.
FrameSet == {90}
TextSet == {<<"0", "0", ":", "0", "0", ":", "0", "1", ":", "0", "5">>}

NextEd ==
    \/ AddRow(MaxEdits)
    \/ \E index \in 0 .. 1 : InsertRow(index, MaxEdits)
    \/ \E index \in 0 .. 1 : DeleteRow(index, MaxEdits)
    \/ \E src, index \in 0 .. 1 : MoveRow(src, index, MaxEdits)
    \/ \E i \in 1 .. 2, f \in FrameSet : SetFrame(i, f, MaxEdits)
    \/ \E i \in 1 .. 2, tc \in TextSet : TypeTimecode(i, tc, MaxEdits)
    \/ undo(MaxEdits)
    \/ redo(MaxEdits)
    \/ save(MaxEdits)
    \/ \E req \in inFlight : SaveOk(req)
    \/ \E req \in inFlight : SaveFailed(req)
    \/ \E data \in ServerTimelines : LoadArrives(data)
    \/ LoadFails

SpecEd == Init /\ [][NextEd]_vars

\* ------------------------------------------- the editor in a long session
\* Cap on the number of input events of a long session.
MaxLong == 56

\* Ctrl+Z and Ctrl+Y once the undo stack has had the time to fill up.
LateUndo == events >= MAX_UNDO /\ undo(MaxLong)
LateRedo == events >= MAX_UNDO /\ redo(MaxLong)

\* Rows are added one after the other, and at the end some edits are undone
\* and redone.
NextLong ==
    \/ AddRow(MaxLong)
    \/ LateUndo
    \/ LateRedo

SpecLong == Init /\ [][NextLong]_vars

\* ------------------------------------------------ the timecode field alone
\* Longest text entered in the timecode field, and the characters it is made
\* of: two digits, the colon and a letter.
MaxTcLen == 4
TcChars == {"0", "5", ":", "a"}
TcTexts == UNION {[1 .. n -> TcChars] : n \in 0 .. MaxTcLen}

\* Frame rates and frames of the row whose timecode is shown.
FpsSet == {1, 24, 60}
FrameInputs == {0, 1, 59, 60, 61, 3599, 3600, 86400, 219661, 21600000}

\* A timeline of one row has been loaded.
InitTc ==
    /\ EngineAtMount
    /\ fps \in FpsSet
    /\ durationFrames = DefaultDuration
    /\ \E frame \in FrameInputs : rows = <<Row(1, frame)>>
    /\ savedRows = rows
    /\ undoStack = <<>>
    /\ redoStack = <<>>
    /\ isDirty = FALSE
    /\ typed = NotTyped
    /\ loading = FALSE
    /\ inFlight = {}

\* One change of the timecode field: to any text, or to the text it shows.
NextTc ==
    \/ \E tc \in TcTexts : TypeTimecode(1, tc, 1)
    \/ TypeTimecode(1, frameToTimecode(rows[1].frame, fps), 1)

SpecTc == InitTc /\ [][NextTc]_vars

\* ======================================================== layout solver claims
Solved == layout # NoLayout

\* The item list in ascending order, and the slot arc of the item at place n.
InOrder == SortByOrder(widgets)
SlotArc(n) == HalfDiag(InOrder[n].sizeIndex) * 2 + gap * LS

\* The sum of the slot arcs of all items.
RECURSIVE ArcSum(_)
ArcSum(n) == IF n = 0 THEN 0 ELSE ArcSum(n - 1) + SlotArc(n)

\* The accumulated angle after the first n items, read off the solved targets:
\* every target is the midpoint of its span, so the span ends as far beyond the
\* target as it starts before it.
RECURSIVE SpanEnd(_)
SpanEnd(n) ==
    IF n = 0 THEN -HalfPiA
    ELSE 2 * layout.targets[InOrder[n].id].angle - SpanEnd(n - 1)

SpanSum == SpanEnd(Len(widgets)) + HalfPiA

\* C3 (as claimed): for every non-empty list, gap and orbitPad the spans of the
\* solved targets sum to 2 pi: the accumulated angle ends at -pi/2 + 2 pi.
C3_SpansFillRing ==
    (Solved /\ Len(widgets) > 0) => Abs(SpanSum - TwoPiA) <= AngleTol

\* C3 (amended): the spans sum to totalArc / radius, which never exceeds 2 pi
\* (orbitPad >= 0) and is 2 pi when the radius is neither floored nor padded.
C3_SpansSumToArcOverRadius ==
    (Solved /\ Len(widgets) > 0) =>
        /\ Abs(SpanSum - RDiv(ArcSum(Len(widgets)) * AS, layout.radius)) <= AngleTol
        /\ SpanSum <= TwoPiA + AngleTol
        /\ (orbitPad = 0 /\ layout.radius > MinRadius * LS)
              => Abs(SpanSum - TwoPiA) <= AngleTol

\* C3 witness: three items solved above the minimum radius with a pad, whose
\* spans leave more than a tenth of the ring free.
C3_Witness ==
    /\ Solved
    /\ Len(widgets) = 3
    /\ orbitPad > 0
    /\ layout.radius > MinRadius * LS
    /\ SpanSum * 10 < TwoPiA * 9

\* The only item of a one-item list, its target and half its span.
Single == widgets[1]
SingleTarget == layout.targets[Single.id]
SingleHalfSpan == RDiv(SlotArc(1) * AS, 2 * layout.radius)

\* C4 (as claimed): the target of the only item of a list is at angle -pi/2,
\* position (0, -radius).
C4_SingleItemAtTop ==
    (Solved /\ Len(widgets) = 1) =>
        /\ Abs(SingleTarget.angle + HalfPiA) <= AngleTol
        /\ Abs(SingleTarget.x) <= LenTol
        /\ Abs(SingleTarget.y + layout.radius) <= LenTol

\* C4 (amended): the target of the only item is half its own span clockwise of
\* the top: angle -pi/2 + span/2 with span = slotArc / radius, position
\* radius * (sin(span/2), -cos(span/2)), strictly to the right of the top.
C4_SingleItemAtHalfSpan ==
    (Solved /\ Len(widgets) = 1) =>
        /\ Abs(SingleTarget.angle - (SingleHalfSpan - HalfPiA)) <= AngleTol
        /\ Abs(SingleTarget.x - RDiv(Sin(SingleHalfSpan) * layout.radius, AS)) <= LenTol
        /\ Abs(SingleTarget.y + RDiv(Cos(SingleHalfSpan) * layout.radius, AS)) <= LenTol
        /\ SingleTarget.x > LenTol

\* C4 witness: a single XL item solved with the widest gap.
C4_Witness ==
    /\ Solved
    /\ Len(widgets) = 1
    /\ Single.sizeIndex = NumSizes - 1
    /\ gap = 80

\* The radius the circumference alone asks for: totalArc / 2 pi.
ArcRadius == RDiv(ArcSum(Len(widgets)) * AS, TwoPiA)

\* C5 (as claimed): radius = max(minimum, totalArc / 2 pi) + orbitPad.
C5_PadAfterFloor ==
    (Solved /\ Len(widgets) > 0) =>
        Abs(layout.radius - (Max(MinRadius * LS, ArcRadius) + orbitPad * LS)) <= LenTol

\* C5 (amended): radius = max(minimum, totalArc / 2 pi + orbitPad): the pad is
\* added before the floor is applied.
C5_PadBeforeFloor ==
    (Solved /\ Len(widgets) > 0) =>
        Abs(layout.radius - Max(MinRadius * LS, ArcRadius + orbitPad * LS)) <= LenTol

\* C5 witness: a solved list whose padded radius is still under the floor.
C5_Witness ==
    /\ Solved
    /\ Len(widgets) > 0
    /\ orbitPad = 40
    /\ ArcRadius + orbitPad * LS < MinRadius * LS
    /\ layout.radius = MinRadius * LS

\* C6: for a fixed item list the solved radius does not decrease when gap or
\* orbitPad is increased (the other one held fixed or increased too).
C6_RadiusMonotone ==
    [][(Solved /\ widgets' = widgets /\ gap' >= gap /\ orbitPad' >= orbitPad)
          => layout'.radius >= layout.radius]_vars

\* C6 witness: a list solved again after a slider was moved to its maximum,
\* with a radius above the floor.
C6_Witness ==
    /\ Solved
    /\ paramsRef.breatheSpeed = Undefined
    /\ gap = 80
    /\ Len(widgets) > 0
    /\ layout.radius > MinRadius * LS

\* C7: the empty list solves to the fallback radius 180 and an empty target map,
\* whatever gap and orbitPad are.
C7_EmptyListFallback ==
    (Solved /\ Len(widgets) = 0) =>
        /\ layout.radius = 180 * LS
        /\ DOMAIN layout.targets = {}

\* C7 witness: the empty list solved under a slider setting other than the default.
C7_Witness ==
    /\ Solved
    /\ Len(widgets) = 0
    /\ gap = 8
    /\ orbitPad = 120

\* ============================================================ engine claims
\* The order values of a list are exactly 0 .. N-1, each held once.
Dense(ws) ==
    /\ {ws[i].order : i \in 1 .. Len(ws)} = 0 .. (Len(ws) - 1)
    /\ \A i, j \in 1 .. Len(ws) : i # j => ws[i].order # ws[j].order

\* C1: after any sequence of add, remove, reorder swap and click, interleaved
\* with ticks and pointer events, the orders of the live items are exactly
\* 0 .. N-1 without duplicates or gaps (in the state and in the rendered list).
C1_OrdersDense == Dense(widgets) /\ Dense(widgetsRef)

\* C1 witness: a swap has been triggered, an item has been removed, and the
\* orders differ from the ones the items were created with.
C1_Witness ==
    /\ reorderClock > 0
    /\ Len(widgets) < InitialCount
    /\ \E i \in 1 .. Len(widgets) : widgets[i].order # widgets[i].id - 1

\* The order an item holds in a list.
OrderOf(ws, id) == ws[CHOOSE i \in 1 .. Len(ws) : ws[i].id = id].order

\* A step is a tick exactly when it advances the elapsed time.
IsTick == timeRef' # timeRef

\* The reorder step of the tick is evaluated for the dragged item.
Reordering ==
    /\ IsTick
    /\ drag.active /\ drag.moved
    /\ reorderClock <= 1
    /\ drag.id \in DOMAIN phy
    /\ drag.id \in {widgetsRef[i].id : i \in 1 .. Len(widgetsRef)}

\* The shortest angular distance between two directions, over the reals.
Apart(a, b) ==
    LET d == (a - b) % TwoPiA
    IN  IF d > PiA THEN TwoPiA - d ELSE d

\* C2: when the reorder step is evaluated (session moved, cooldown 0) and the
\* dragged item A is at the angle of the target of another item B, the step
\* gives A the order B had and B the order A had, and leaves every other order.
C2_SwapExchangesOrders ==
    [][Reordering =>
          \A b \in DOMAIN targets' \ {drag.id} :
              Apart(targets'[b].angle, Atan2(phy[drag.id].y, phy[drag.id].x))
                    <= SameAngleTol
              => /\ OrderOf(widgets', drag.id) = OrderOf(widgets, b)
                 /\ OrderOf(widgets', b) = OrderOf(widgets, drag.id)
                 /\ \A i \in 1 .. Len(widgets) :
                       widgets[i].id \notin {drag.id, b} => widgets'[i] = widgets[i]
                 /\ Len(widgets') = Len(widgets)]_vars

\* C2 witness: item 8, held at the angle of the target of item 4 (four places
\* away), has just exchanged orders with it.
C2_Witness ==
    /\ drag.active /\ drag.id = 8
    /\ reorderClock = CooldownTicks
    /\ Len(widgets) = InitialCount
    /\ OrderOf(widgets, 8) = 3
    /\ OrderOf(widgets, 4) = 7

\* C8: the targets a tick computes have exactly the ids of the item list the
\* tick reads as keys.
C8_TargetKeysAreLiveIds ==
    [][IsTick =>
          DOMAIN targets' = {widgetsRef[i].id : i \in 1 .. Len(widgetsRef)}]_vars

\* C8 witness: a tick has run on a list that an add has changed.
C8_Witness ==
    /\ timeRef > 0
    /\ uid > InitialCount
    /\ uid \in DOMAIN targets

\* A step is a click exactly when it ends a session that never moved.
IsClick == drag.active /\ ~drag.moved /\ ~drag'.active

\* C9: a click changes the size index s of the clicked item to (s + 1) mod 5,
\* so that the largest size wraps to the smallest and four more clicks would
\* restore s, and changes no other item.
C9_ClickCyclesSize ==
    [][IsClick =>
          /\ Len(widgets') = Len(widgets)
          /\ \A i \in 1 .. Len(widgets) :
                IF widgets[i].id = drag.id
                THEN /\ widgets'[i].sizeIndex = (widgets[i].sizeIndex + 1) % 5
                     /\ widgets[i].sizeIndex = 4 => widgets'[i].sizeIndex = 0
                     /\ CycleSize(CycleSize(CycleSize(CycleSize(
                            widgets'[i].sizeIndex)))) = widgets[i].sizeIndex
                     /\ widgets'[i].id = widgets[i].id
                     /\ widgets'[i].order = widgets[i].order
                ELSE widgets'[i] = widgets[i]]_vars

\* C9 witness: item 5, created with the largest size, has been clicked and has
\* the smallest size.
C9_Witness ==
    /\ ~drag.active
    /\ \E i \in 1 .. Len(widgets) : widgets[i].id = 5 /\ widgets[i].sizeIndex = 0

\* C10: in every reachable state with fewer than 16 items, add followed at once
\* by remove drops exactly the item the add created and leaves every other
\* item with its id, size and order.
C10_AddThenRemove ==
    Len(widgets) < MaxWidgets =>
        LET added == AddUpd(widgets, uid + 1)
            back  == RemoveUpd(added)
        IN  /\ Len(added) = Len(widgets) + 1
            /\ Removed(added).id = uid + 1
            /\ {back[i] : i \in 1 .. Len(back)}
                  = {widgets[i] : i \in 1 .. Len(widgets)}

\* C10 witness: an item was added and then removed again, and the items that
\* were live before the add are the live items.
C10_Witness ==
    /\ uid = InitialCount + 1
    /\ Len(widgets) = InitialCount
    /\ uid \notin {widgets[i].id : i \in 1 .. Len(widgets)}
    /\ events = 2

\* The session of the tick is held on a live item that has motion state.
Dragging ==
    /\ drag.active
    /\ drag.id \in {widgetsRef[i].id : i \in 1 .. Len(widgetsRef)}
    /\ drag.id \in DOMAIN phy

\* C11: at the end of every tick during which a session is active for a live
\* item with motion state, the item is at the tracked pointer position the tick
\* read, with velocity (0, 0): neither the spring step nor the collision step
\* has moved or pushed it.
C11_DraggedTracksPointer ==
    [][(IsTick /\ Dragging) =>
          /\ drag.id \in DOMAIN phy'
          /\ phy'[drag.id].x = mouseRef.x
          /\ phy'[drag.id].y = mouseRef.y
          /\ phy'[drag.id].vx = 0
          /\ phy'[drag.id].vy = 0]_vars

\* C11 witness: item 8 has been dragged to the far point and held there through
\* a tick, while other items have moved off the centre.
C11_Witness ==
    /\ drag.active /\ drag.moved /\ drag.id = 8
    /\ timeRef > 0
    /\ 8 \in DOMAIN phy
    /\ phy[8] = [x |-> 2680, y |-> 1790, vx |-> 0, vy |-> 0]
    /\ mouseRef = [x |-> 2680, y |-> 1790]
    /\ \E k \in DOMAIN phy : k # 8 /\ phy[k].vx # 0

\* The orders of the items, by id.
OrderMap(ws) == {<<ws[i].id, ws[i].order>> : i \in 1 .. Len(ws)}

\* C12: a tick changes an order only if a session is active and has moved; a
\* pressed session under the movement threshold and the absence of a session
\* leave every order as it is.
C12_SwapOnlyWhenMoved ==
    [][(IsTick /\ ~(drag.active /\ drag.moved)) =>
          /\ OrderMap(widgets') = OrderMap(widgets)
          /\ widgets' = widgets
          /\ reorderClock' < CooldownTicks]_vars

\* C12 witness: item 8 is pressed and held under the threshold, in the direction
\* of the target of item 4, two ticks have run with it there, and no order
\* changed.
C12_Witness ==
    /\ drag.active /\ ~drag.moved /\ drag.id = 8
    /\ timeRef = 2
    /\ mouseRef = [x |-> 30, y |-> 20]
    /\ 8 \in DOMAIN phy
    /\ phy[8].x = 30 /\ phy[8].y = 20
    /\ reorderClock = 0
    /\ OrderMap(widgets) = OrderMap(InitialWidgets)

\* C13: a tick that triggers a swap is the first swap since mount or comes at
\* least 20 ticks after the previous one: no swap is triggered in ticks
\* t+1 .. t+19 after a swap in tick t, whatever input arrives in between; and
\* the cooldown is 20 after the swap and one less (not below 0) after every
\* other tick.
C13_NoSwapDuringCooldown ==
    [][IsTick =>
          /\ swapAge' = 0 => (swapAge = Never \/ swapAge >= CooldownTicks - 1)
          /\ swapAge' = 0 => reorderClock' = CooldownTicks
          /\ swapAge' # 0 => /\ reorderClock' = Max(0, reorderClock - 1)
                             /\ OrderMap(widgets') = OrderMap(widgets)]_vars

\* C13 witness: a second swap has been triggered, in tick 21, twenty ticks after
\* the swap of tick 1, by a session that has moved.
C13_Witness ==
    /\ swapAge = 0
    /\ timeRef = CooldownTicks + 1
    /\ drag.active /\ drag.moved

\* The tick of this step triggers a swap; Partner is the swapped item that is
\* not the dragged one.
SwapTick == IsTick /\ swapAge' = 0
Partner(b) ==
    /\ b \in DOMAIN phy
    /\ b # drag.id
    /\ \E i \in 1 .. Len(widgets) :
          widgets[i].id = b /\ OrderOf(widgets', b) # widgets[i].order

\* The position a spring step of duration dt leaves an item at that starts at
\* pp and is pulled toward tgt, written out from the tunables.
PulledTo(pp, tgt, dt) ==
    LET k  == paramsRef.stiffness
        dm == IF dt = 1 THEN paramsRef.damping ELSE Pow(paramsRef.damping, dt)
        vx == RDiv((pp.vx + RDiv((tgt.x - pp.x) * k * dt, PS)) * dm, PS)
        vy == RDiv((pp.vy + RDiv((tgt.y - pp.y) * k * dt, PS)) * dm, PS)
    IN  <<pp.x + vx, pp.y + vy>>

\* The targets of the rendered list and of the list as the step leaves it,
\* under the parameters the tick reads.
TargetsRendered ==
    computeTargets(widgetsRef, paramsRef.gap, paramsRef.orbitPad).targets
TargetsAfter == computeTargets(widgets', paramsRef.gap, paramsRef.orbitPad).targets

\* C14 (as claimed): in a tick that triggers a swap, the integration step pulls
\* the swapped item that is not dragged toward the target of its new order.
C14_SwapVisibleSameTick ==
    [][SwapTick =>
          \A b \in DOMAIN phy : Partner(b) =>
              <<phy'[b].x, phy'[b].y>>
                  = PulledTo(phy[b], TargetsAfter[b], timeRef' - timeRef)]_vars

\* C14 (amended): in a tick that triggers a swap, the integration step still
\* pulls the swapped item that is not dragged toward the target of the order it
\* had before the swap, which differs from the target of its new order: every
\* tick uses the targets of the rendered list, so the swap is in the targets
\* of the ticks that follow its render.
C14_SwapVisibleAfterRender ==
    [][IsTick =>
          /\ targets' = TargetsRendered
          /\ SwapTick =>
                \A b \in DOMAIN phy : Partner(b) =>
                    /\ <<phy'[b].x, phy'[b].y>>
                          = PulledTo(phy[b], targets'[b], timeRef' - timeRef)
                    /\ targets'[b] # TargetsAfter[b]]_vars

\* C14 witness: item 8 was swapped with item 3 in tick 1, the list was rendered,
\* and tick 2 has computed for item 3 the target of its new order, the last
\* place of the ring.
C14_Witness ==
    /\ swapAge = 1
    /\ timeRef = 2
    /\ Len(widgets) = InitialCount
    /\ OrderOf(widgets, 3) = InitialCount - 1
    /\ 3 \in DOMAIN targets
    /\ targets[3].angle > PiA

\* The session refers to an item that has been removed.
Stale ==
    /\ drag.active
    /\ drag.id \notin {widgets[i].id : i \in 1 .. Len(widgets)}

\* A step of a pointer handler: not a tick, not an add or a remove, and the
\* session or the tracked pointer position changes.
PointerStep ==
    /\ ~IsTick
    /\ uid' = uid
    /\ Len(widgets') = Len(widgets)
    /\ drag' # drag \/ mouseRef' # mouseRef

\* The motion state a tick of duration dt leaves when there is no session.
FreeTick(dt) ==
    LET tg == computeTargets(widgetsRef, paramsRef.gap, paramsRef.orbitPad).targets
    IN  Repulsion(widgetsRef,
                  Integrate(widgetsRef, tg, phy, NullDrag, mouseRef, paramsRef, dt),
                  NullDrag, paramsRef, dt)

\* C15: while the session refers to a removed item, every tick, pointer-move and
\* pointer-up leaves the remaining items as they would be without the session:
\* a pointer handler changes no order, size, position or velocity, and a tick
\* changes no order or size and moves the items as a tick without a session.
C15_StaleSessionNoOp ==
    [][Stale =>
          /\ PointerStep => (widgets' = widgets /\ phy' = phy)
          /\ IsTick => /\ widgets' = widgets
                       /\ phy' = FreeTick(timeRef' - timeRef)]_vars

\* C16: in every tick the ids of the item list the tick reads are exactly the
\* keys of the motion-state table, whatever adds, removes and renders came
\* before it.
C16_TickSeesSyncedMotionState ==
    [][IsTick =>
          DOMAIN phy = {widgetsRef[i].id : i \in 1 .. Len(widgetsRef)}]_vars

\* C16 witness: an item has been added and a tick has moved it off the centre,
\* where it was seeded.
C16_Witness ==
    /\ timeRef = 2
    /\ uid = InitialCount + 1
    /\ uid \in DOMAIN phy
    /\ phy[uid].x # 0
    /\ Len(widgetsRef) = InitialCount + 1

\* C17: in every tick, after any sequence of slider changes, the published
\* breathe value is sin(elapsed time * configured breatheSpeed), a value in
\* [-1, 1].
C17_BreatheDefined ==
    [][IsTick =>
          /\ breathe' = Sin(timeRef' * breatheSpeed * (AS \div PS))
          /\ breathe' >= 0 - AS
          /\ breathe' <= AS]_vars

\* C18 (as claimed): the pointer handlers, the click path included, leave every
\* entry of the motion-state table unchanged.
C18_HandlersLeaveMotionState ==
    [][PointerStep => phy' = phy]_vars

\* C18 (amended): the pointer handlers leave every position of the motion-state
\* table unchanged, and every velocity except in a click: the update a click
\* queues adds an impulse to the velocity of every live item with motion state
\* other than the item of the session, and to no other.
C18_HandlersLeavePositions ==
    [][PointerStep =>
          /\ DOMAIN phy' = DOMAIN phy
          /\ \A k \in DOMAIN phy :
                /\ phy'[k].x = phy[k].x
                /\ phy'[k].y = phy[k].y
                /\ (IsClick /\ k # drag.id
                        /\ k \in {widgets[i].id : i \in 1 .. Len(widgets)})
                      => <<phy'[k].vx, phy'[k].vy>> # <<phy[k].vx, phy[k].vy>>
                /\ ~(IsClick /\ k # drag.id
                        /\ k \in {widgets[i].id : i \in 1 .. Len(widgets)})
                      => phy'[k] = phy[k]]_vars

\* C18 witness: item 5 (XL) has been clicked before the first tick: item 1 has
\* taken the impulse and item 5 has not.
C18_Witness ==
    /\ timeRef = 0
    /\ events = 2
    /\ ~drag.active
    /\ Len(widgets) = InitialCount
    /\ widgets[5].sizeIndex = 0
    /\ phy[1] = [x |-> 0, y |-> 0, vx |-> 93 + 49, vy |-> 0 - 474]
    /\ phy[5] = [x |-> 0, y |-> 0, vx |-> 0 - 41, vy |-> 482]

\* A step that ends a session that has moved.
IsRelease == drag.active /\ drag.moved /\ ~drag'.active

\* C19: a pointer-up that ends a session that has moved only destroys the
\* session: no size, order or motion state changes; and a tick without a session
\* puts every live item, the released one included, where the spring step
\* toward its target of that tick puts it.
C19_ReleaseOnlyEndsSession ==
    [][/\ IsRelease =>
             /\ drag' = NullDrag
             /\ widgets' = widgets
             /\ widgetsRef' = widgetsRef
             /\ phy' = phy
             /\ reorderClock' = reorderClock
       /\ (IsTick /\ ~drag.active) =>
             \A k \in DOMAIN phy :
                 <<phy'[k].x, phy'[k].y>>
                     = PulledTo(phy[k], targets'[k], timeRef' - timeRef)]_vars

\* C19 witness: item 8 was dragged to the far point, held there through tick 1,
\* released, and tick 2 has pulled it from there toward its target.
C19_Witness ==
    /\ ~drag.active
    /\ timeRef = 2
    /\ events = 3
    /\ mouseRef = [x |-> 2680, y |-> 1790]
    /\ 8 \in DOMAIN phy
    /\ phy[8].x > 2000 /\ phy[8].x # 2680
    /\ phy[8].vx # 0
    /\ Len(widgets) = InitialCount
    /\ \A i \in 1 .. InitialCount : widgets[i].sizeIndex = (i - 1) % NumSizes

\* The collision step of this step has run on the pair of items 1 and 2.
Collided == ~renderPending /\ renderPending' /\ timeRef' = timeRef

\* The squared distance of the pair and its minDist, in tenths of a pixel.
PairDist2 == (phy[1].x - phy[2].x) * (phy[1].x - phy[2].x)
             + (phy[1].y - phy[2].y) * (phy[1].y - phy[2].y)
PairMinDist ==
    HalfDiag(widgets[1].sizeIndex) + HalfDiag(widgets[2].sizeIndex)
        + (paramsRef.gap * LS) \div 2

\* The velocity change the step gives item k.
Kick(k) == <<phy'[k].vx - phy[k].vx, phy'[k].vy - phy[k].vy>>

\* C20: for a pair of live items without a session that is closer than minDist,
\* coincident positions included, the collision step (repulsion > 0, dt > 0)
\* changes both velocities by non-zero impulses, equal in magnitude and
\* opposite in direction.
C20_OverlapPushesBoth ==
    [][(Collided /\ PairDist2 < PairMinDist * PairMinDist) =>
          /\ Kick(1) # <<0, 0>>
          /\ Kick(2) # <<0, 0>>
          /\ Kick(1)[1] = 0 - Kick(2)[1]
          /\ Kick(1)[2] = 0 - Kick(2)[2]]_vars

\* The impulse of strength 2.5 + 0.6 * size along the direction from the centre
\* to the position pp, in tenths of a pixel per tick.
RadialImpulse(pp, size) ==
    LET ang == Atan2(pp.y, pp.x)
        str == 25 + 6 * size
    IN  <<RDiv(Cos(ang) * str, AS), RDiv(Sin(ang) * str, AS)>>

\* A click on a live item: the session that ends never moved and its item is
\* in the list.
ClickOnLive == IsClick /\ drag.id \in Ids(widgets)

\* C21 (as claimed): a click adds to the velocity of every other item a radial
\* impulse whose strength comes from the size the clicked item has after the
\* cycle, and none to the clicked item.
C21_RippleByResultingSize ==
    [][ClickOnLive =>
          \A k \in DOMAIN phy :
              IF k = drag.id THEN phy'[k] = phy[k]
              ELSE Kick(k) = RadialImpulse(phy[k],
                                 FindById(widgets', drag.id).sizeIndex)]_vars

\* C21 (amended): a click adds to the velocity of every other item a radial
\* impulse of strength 2.5 + 0.6 * s, s the size index the clicked item had
\* before the click (not the size it cycles to), and none to the clicked item;
\* the strengths of the two sizes always differ.
C21_RippleBySizeBefore ==
    [][ClickOnLive =>
          /\ \A k \in DOMAIN phy :
                IF k = drag.id THEN phy'[k] = phy[k]
                ELSE /\ Kick(k) = RadialImpulse(phy[k],
                                      FindById(widgets, drag.id).sizeIndex)
                     /\ Kick(k) # RadialImpulse(phy[k],
                                      FindById(widgets', drag.id).sizeIndex)
                     /\ phy'[k].x = phy[k].x /\ phy'[k].y = phy[k].y
          /\ FindById(widgets', drag.id).sizeIndex
                = CycleSize(FindById(widgets, drag.id).sizeIndex)]_vars

\* C21 witness: item 5 (XL) has been clicked after the first tick and is XS:
\* the items around it carry the impulse of the XL size.
C21_Witness ==
    /\ timeRef = 1
    /\ events = 2
    /\ ~drag.active
    /\ ~renderPending
    /\ Len(widgets) = InitialCount
    /\ widgets[5].sizeIndex = 0

\* The sizes of the items, by id.
SizeMap(ws) == {<<ws[i].id, ws[i].sizeIndex>> : i \in 1 .. Len(ws)}

\* C22: across adds and removes the live items have pairwise distinct ids, all
\* handed out by the counter (1 .. uid); the counter never goes back; every step
\* keeps the items it keeps under their ids, and an id that enters the list is
\* the one id greater than every id handed out before, so that the id of a
\* removed item is never assigned again.
C22_IdsUniqueAndFresh ==
    /\ [](/\ Cardinality(Ids(widgets)) = Len(widgets)
          /\ \A id \in Ids(widgets) : id >= 1 /\ id <= uid)
    /\ [][/\ uid' >= uid
          /\ \A id \in Ids(widgets') \ Ids(widgets) :
                /\ id > uid
                /\ id = uid'
                /\ \A k \in Ids(widgets) : id > k
          /\ Cardinality(Ids(widgets') \ Ids(widgets)) <= 1
          /\ Len(widgets') >= Len(widgets) => Ids(widgets) \subseteq Ids(widgets')
          /\ Len(widgets') < Len(widgets) =>
                (Ids(widgets') \subseteq Ids(widgets) /\ uid' = uid)]_vars

\* C22 witness: item 9 was added and removed, and the next item added is 10,
\* not 9 again.
C22_Witness ==
    /\ uid = InitialCount + 2
    /\ Ids(widgets) = (1 .. InitialCount) \cup {InitialCount + 2}
    /\ Len(widgets) = InitialCount + 1

\* The item that holds order k, the angle of its solved target and half its
\* span, slot arc / radius / 2.
ItemAt(k) == widgets[CHOOSE i \in 1 .. Len(widgets) : widgets[i].order = k]
AngleAt(k) == layout.targets[ItemAt(k).id].angle
HalfSpanAt(k) ==
    RDiv((HalfDiag(ItemAt(k).sizeIndex) * 2 + gap * LS) * AS, 2 * layout.radius)

\* The list with its array reversed.
Reversed(ws) == [i \in 1 .. Len(ws) |-> ws[Len(ws) + 1 - i]]

\* C23: the solved targets walk the items in ascending order from the top: the
\* item of order 0 is at -pi/2 plus half its span, the item of order k + 1 is
\* half the span of k plus half its own span beyond the item of order k, so the
\* angles strictly increase with the order; and the targets are the same
\* whatever the places of the items in the array.
C23_TargetsFollowOrder ==
    (Solved /\ Len(widgets) > 0) =>
        /\ Abs(AngleAt(0) - (HalfSpanAt(0) - HalfPiA)) <= AngleTol
        /\ \A k \in 0 .. (Len(widgets) - 2) :
              /\ Abs(AngleAt(k + 1) - (AngleAt(k) + HalfSpanAt(k) + HalfSpanAt(k + 1)))
                    <= AngleTol
              /\ AngleAt(k + 1) > AngleAt(k)
        /\ layout = computeTargets(Reversed(widgets), gap, orbitPad)
        /\ layout = computeTargets(SortByOrder(widgets), gap, orbitPad)

\* C23 witness: three items of three sizes solved from an array that starts
\* with the item of the last order.
C23_Witness ==
    /\ Solved
    /\ Len(widgets) = 3
    /\ widgets[1].order = 2
    /\ widgets[1].sizeIndex = 4
    /\ widgets[2].sizeIndex = 0
    /\ widgets[3].sizeIndex = 2
    /\ gap = 28

\* The squared distance of the item's starting place from its target, and that
\* of the item after the step.
StartDist2 ==
    (layout.targets[1].x - mouseRef.x) * (layout.targets[1].x - mouseRef.x)
        + (layout.targets[1].y - mouseRef.y) * (layout.targets[1].y - mouseRef.y)
Dist2After ==
    (layout.targets[1].x - phy'[1].x) * (layout.targets[1].x - phy'[1].x)
        + (layout.targets[1].y - phy'[1].y) * (layout.targets[1].y - phy'[1].y)

\* The item has come within epsilon of its target by the last tick the model
\* follows it for.
SettledInTime == timeRef = MaxSettle => Near

\* C24 (as claimed): under the default stiffness and damping at dt = 1, the
\* distance of a free item from its stationary target strictly decreases in
\* every tick until it is below epsilon, and it gets below epsilon.
C24_DistanceDecreasesEveryTick ==
    /\ [][(IsTick /\ ~Near) => Dist2After < Dist2ToTarget]_vars
    /\ []SettledInTime

\* C24 (amended): the distance strictly decreases in every tick until it is
\* below a tenth of the distance the item started at (at rest, or spawned), it
\* never exceeds the starting distance, and it gets below epsilon (within 60
\* ticks); in between it is not monotone: the default tunables are
\* under-damped, the item passes its target and the distance grows again
\* before it settles.
C24_ConvergesWithOvershoot ==
    /\ [][IsTick =>
             /\ Dist2After <= StartDist2
             /\ Dist2After >= Dist2ToTarget => Dist2After * 100 <= StartDist2]_vars
    /\ []SettledInTime

\* C24 witness: the item released at (350, 234) has passed its target and the
\* last tick has taken it further away, at a distance above epsilon from which
\* it had not been under epsilon before.
C24_Witness ==
    /\ mouseRef = [x |-> 3500, y |-> 2340]
    /\ timeRef > 0
    /\ ~Near
    /\ LET ex == layout.targets[1].x - phy[1].x
           ey == layout.targets[1].y - phy[1].y
       IN  /\ (ex + phy[1].vx) * (ex + phy[1].vx) + (ey + phy[1].vy) * (ey + phy[1].vy)
                 >= SettleEps * SettleEps
           /\ (ex + phy[1].vx) * (ex + phy[1].vx) + (ey + phy[1].vy) * (ey + phy[1].vy)
                 < ex * ex + ey * ey

\* C25: once the engine is torn down no tick runs: the browser holds no frame
\* request of the loop, and no step advances the time, moves an item, changes
\* the list or requests a frame, however many ticks ran before the teardown and
\* whether or not a render was pending.
C25_NoTickAfterTeardown ==
    /\ [](~mounted => rafQueue = {})
    /\ [][~mounted => UNCHANGED <<timeRef, phy, widgets, breathe, reorderClock,
                                   frameRef, rafQueue>>]_vars

\* C25 witness: the engine was torn down after 20 ticks, while the item was on
\* its way and the request made by tick 20 was pending.
C25_Witness ==
    /\ ~mounted
    /\ timeRef = 20
    /\ frameRef = FirstHandle + 20
    /\ renderPending
    /\ ~Near

\* C26: while a session that has moved holds the pointer in one place, at most
\* one swap is triggered: a tick triggers a swap only if none was triggered
\* before.
C26_AtMostOneSwapWhileHeld ==
    [][(IsTick /\ swapAge' = 0) => swapAge = Never]_vars

\* A step that is neither a tick nor an add nor a remove: a pointer-down, a
\* pointer-move, a pointer-up (click or release), a slider change or a render.
NotStructural ==
    /\ ~IsTick
    /\ uid' = uid
    /\ Len(widgets') = Len(widgets)

\* C27: a click, a pointer-down, a pointer-move, a pointer-up after a drag and
\* a configuration change each leave the id and the order of every item as they
\* are; a click changes nothing but the size of the clicked item.
C27_OrderChangesOnlyStructurally ==
    [][NotStructural =>
          /\ OrderMap(widgets') = OrderMap(widgets)
          /\ \A i \in 1 .. Len(widgets) :
                /\ widgets'[i].id = widgets[i].id
                /\ widgets'[i].order = widgets[i].order
          /\ (gap' # gap \/ ~IsClick) => widgets' = widgets]_vars

\* C27 witness: the gap slider was moved, item 5 was clicked and item 8 pressed,
\* and every item has the order it was created with.
C27_Witness ==
    /\ gap = 8
    /\ events = 3
    /\ drag.active /\ drag.id = 8
    /\ widgets[5].sizeIndex = 0
    /\ OrderMap(widgets) = OrderMap(InitialWidgets)

\* A step that delivers an input event of the given kind.
Delivers(kind) == events' = events + 1 /\ lastEvent'.kind = kind

\* What a pointer event that is ignored leaves alone: everything but the
\* history of the events.
Ignored ==
    UNCHANGED <<widgets, widgetsRef, gap, orbitPad, paramsRef, phy, drag,
                mouseRef, reorderClock, timeRef, breathe, uid, renderPending,
                layout, targets>>

\* C28: the one session begins only with a pointer-down of the primary button
\* on an item and ends only with a pointer-up, and every pointer-up ends it; no
\* other step touches it; a pointer-down with another button leaves the session
\* and the tracked pointer position as they are, and a pointer-move or
\* pointer-up without a session changes nothing.
C28_SessionFromPressToRelease ==
    [][/\ drag' # drag =>
             (Delivers("down") \/ Delivers("move") \/ Delivers("up"))
       /\ (~drag.active /\ drag'.active) =>
             (Delivers("down") /\ lastEvent'.button = 0)
       /\ (Delivers("down") /\ lastEvent'.button = 0) =>
             /\ drag'.active /\ ~drag'.moved
             /\ drag'.id \in Ids(widgetsRef)
       /\ (drag.active /\ ~drag'.active) => Delivers("up")
       /\ Delivers("up") => drag' = NullDrag
       /\ Delivers("move") => drag'.active = drag.active
       /\ (Delivers("down") /\ lastEvent'.button # 0) => Ignored
       /\ ((Delivers("move") \/ Delivers("up")) /\ ~drag.active) => Ignored]_vars

\* C28 witness: item 8 was pressed and dragged to the far point, and a
\* pointer-down of the secondary button has left the session and the tracked
\* position as they were.
C28_Witness ==
    /\ lastEvent.kind = "down" /\ lastEvent.button = 2
    /\ events = 3
    /\ drag.active /\ drag.moved /\ drag.id = 8
    /\ mouseRef = [x |-> 2680, y |-> 1790]

\* The pointer of the event delivered by the step is farther than the
\* threshold from the point the session was pressed at.
EventBeyond ==
    BeyondThreshold(lastEvent'.x - drag.startX, lastEvent'.y - drag.startY)

\* The step is a click: the size of an item changes or the ripple is applied.
ClickApplied == SizeMap(widgets') # SizeMap(widgets) \/ phy' # phy

\* C29: a session starts with moved false; a pointer-move sets moved exactly
\* when it already was set or the pointer is more than 5 pixels from the press
\* point, so it stays set when the pointer returns to the press point; no other
\* step of a session changes it; the release of a session that moved is not a
\* click.
C29_MovedIsSticky ==
    [][/\ (Delivers("down") /\ lastEvent'.button = 0) => ~drag'.moved
       /\ (Delivers("move") /\ drag.active) =>
             drag'.moved = (drag.moved \/ EventBeyond)
       /\ (drag.active /\ drag'.active /\ drag'.moved # drag.moved) =>
             (Delivers("move") \/ Delivers("down"))
       /\ (Delivers("up") /\ drag.active /\ drag.moved) => ~ClickApplied]_vars

\* C29 witness: item 8 was pressed, dragged to the far point, where a tick put
\* it, the pointer went back to the press point, and the release has left the
\* sizes as they were.
C29_Witness ==
    /\ lastEvent.kind = "up" /\ events = 3
    /\ ~drag.active
    /\ PressedId \in DOMAIN phy
    /\ phy[PressedId].x = MountPhy[PressedId].x + 2680
    /\ phy[PressedId].y = MountPhy[PressedId].y + 1790
    /\ mouseRef = [x |-> MountPhy[PressedId].x, y |-> MountPhy[PressedId].y]
    /\ SizeMap(widgets) = SizeMap(InitialWidgets)

\* The position part of a motion-state entry.
PlaceOf(pp) == [x |-> pp.x, y |-> pp.y]

\* C30: a primary pointer-down records the pressed item's motion-state position
\* and sets the tracked position to it; a pointer-move of a session sets the
\* tracked position to the recorded position plus the pointer's displacement
\* from the press point; nothing else writes the tracked position; a tick puts
\* the item of the session at the tracked position, so that after a press with
\* no movement the item stays where it was, whatever an earlier session left.
C30_TrackedPositionFollowsPointer ==
    [][/\ (Delivers("down") /\ lastEvent'.button = 0) =>
             /\ drag'.id \in DOMAIN phy
             /\ mouseRef' = PlaceOf(phy[drag'.id])
             /\ [x |-> drag'.offsetX, y |-> drag'.offsetY] = mouseRef'
             /\ drag'.startX = lastEvent'.x /\ drag'.startY = lastEvent'.y
       /\ (Delivers("move") /\ drag.active) =>
             /\ mouseRef' =
                   [x |-> drag.offsetX + (lastEvent'.x - drag.startX) * LS,
                    y |-> drag.offsetY + (lastEvent'.y - drag.startY) * LS]
             /\ drag'.offsetX = drag.offsetX /\ drag'.offsetY = drag.offsetY
             /\ drag'.startX = drag.startX /\ drag'.startY = drag.startY
       /\ mouseRef' # mouseRef => (Delivers("down") \/ Delivers("move"))
       /\ (IsTick /\ drag.active /\ drag.id \in Ids(widgetsRef)) =>
             PlaceOf(phy'[drag.id]) = mouseRef
       /\ (/\ IsTick /\ drag.active /\ drag.id \in Ids(widgetsRef)
           /\ lastEvent.kind = "down" /\ lastEvent.button = 0) =>
             PlaceOf(phy'[drag.id]) = PlaceOf(phy[drag.id])]_vars

\* C30 witness: the session on item 8 took the tracked position to the far
\* point, where a tick put the item, and ended; item 5, already on its way, was
\* pressed, and the tick after the press has held it where it was pressed.
C30_Witness ==
    /\ lastEvent.kind = "down" /\ lastEvent.button = 0 /\ events = 3
    /\ drag.active /\ ~drag.moved /\ drag.id = 5
    /\ PressedId \in DOMAIN phy /\ phy[PressedId].x > 2000
    /\ phy[5] = [x |-> drag.offsetX, y |-> drag.offsetY, vx |-> 0, vy |-> 0]
    /\ PlaceOf(phy[5]) # PlaceOf(MountPhy[5])
    /\ mouseRef = PlaceOf(phy[5])

\* The entry of an item that first appears: at the centre, with 0.15 times the
\* target the view computes for it as its velocity.
SpawnEntry(tgt) ==
    [x |-> 0, y |-> 0,
     vx |-> RDiv(tgt.x * 15, 100), vy |-> RDiv(tgt.y * 15, 100)]

\* The step runs the sync on a list that changed.
Synced == renderPending /\ ~renderPending' /\ widgetsRef' # widgetsRef

\* C31: the sync leaves one entry per item of the list: the entry the item had,
\* unchanged, or, for an item without one, the centre with 0.15 times its target
\* as velocity; the entries it removes are exactly those of ids not in the list.
C31_SyncSeedsAndPrunes ==
    [][Synced =>
          /\ DOMAIN phy' = Ids(widgets')
          /\ DOMAIN phy \ DOMAIN phy' = DOMAIN phy \ Ids(widgets')
          /\ \A id \in Ids(widgets') :
                phy'[id] = IF id \in DOMAIN phy THEN phy[id]
                           ELSE SpawnEntry(layout'.targets[id])]_vars

\* C31 witness: after the sync of a list of three items, item 1 has the entry
\* it had, item 2 has been spawned with a velocity, and the entry of id 4, which
\* the list does not hold, is gone.
C31_Witness ==
    /\ ~renderPending /\ widgetsRef = widgets /\ Len(widgets) = 3
    /\ DOMAIN phy = {1, 2, 3}
    /\ phy[1] = OldEntry(1)
    /\ phy[3] = OldEntry(3)
    /\ phy[2].x = 0 /\ phy[2].y = 0
    /\ phy[2].vx # 0 /\ phy[2].vy # 0

\* The id of the item of ws with the highest order.
TopId(ws) ==
    LET k == CHOOSE i \in 1 .. Len(ws) :
                 \A j \in 1 .. Len(ws) : ws[j].order <= ws[i].order
    IN  ws[k].id

\* The order of the item id of ws.
OrderIn(ws, id) ==
    LET k == CHOOSE i \in 1 .. Len(ws) : ws[i].id = id
    IN  ws[k].order

\* C32: a remove takes away the item with the highest order and its
\* motion-state entry, and nothing else; an add appends a new item whose order
\* is the number of items there were, the highest; every other item keeps its
\* id, its size, its position and its velocity.
C32_AddRemoveAtHighestOrder ==
    [][/\ Delivers("remove") =>
             /\ Ids(widgets') = Ids(widgets) \ {TopId(widgets)}
             /\ SizeMap(widgets') \subseteq SizeMap(widgets)
             /\ DOMAIN phy' = DOMAIN phy \ {TopId(widgets)}
             /\ \A id \in DOMAIN phy' : phy'[id] = phy[id]
       /\ Delivers("add") =>
             /\ uid' \notin Ids(widgets)
             /\ Ids(widgets') = Ids(widgets) \cup {uid'}
             /\ widgets'[Len(widgets')].id = uid'
             /\ OrderIn(widgets', uid') = Len(widgets)
             /\ TopId(widgets') = uid'
             /\ SizeMap(widgets) \subseteq SizeMap(widgets')
             /\ DOMAIN phy' = DOMAIN phy \cup {uid'}
             /\ \A id \in DOMAIN phy : phy'[id] = phy[id]]_vars

\* C32 witness: item 8 was dragged into the place of item 3, which took the
\* highest order, and the remove has taken item 3 and its entry away, not the
\* last item of the array.
C32_Witness ==
    /\ lastEvent.kind = "remove" /\ events = 3
    /\ Ids(widgets) = (1 .. 8) \ {3}
    /\ DOMAIN phy = (1 .. 8) \ {3}
    /\ OrderIn(widgets, 8) = 2

\* The ids of the items whose order the step changes.
Reordered ==
    {id \in Ids(widgets) \cap Ids(widgets') :
        OrderOf(widgets', id) # OrderOf(widgets, id)}

\* The ids of a list, in array order.
IdSeq(ws) == [i \in 1 .. Len(ws) |-> ws[i].id]

\* C33: a tick that changes an order changes the order of two items and no
\* more: the dragged item and the item that held the order the dragged item
\* takes; the ids and the sizes of all items and the number of items stay.
C33_SwapTouchesTwoOrders ==
    [][(IsTick /\ OrderMap(widgets') # OrderMap(widgets)) =>
          /\ Cardinality(Reordered) = 2
          /\ drag.id \in Reordered
          /\ \E b \in Reordered \ {drag.id} :
                OrderOf(widgets, b) = OrderOf(widgets', drag.id)
          /\ IdSeq(widgets') = IdSeq(widgets)
          /\ SizeMap(widgets') = SizeMap(widgets)
          /\ Len(widgets') = Len(widgets)]_vars

\* C33 witness: the tick has just exchanged the orders of item 8 and item 3;
\* the six other items hold the orders they were created with and all eight
\* have the sizes they were created with.
C33_Witness ==
    /\ swapAge = 0 /\ reorderClock = CooldownTicks
    /\ IdSeq(widgets) = IdSeq(InitialWidgets)
    /\ SizeMap(widgets) = SizeMap(InitialWidgets)
    /\ OrderMap(widgets) \ OrderMap(InitialWidgets) = {<<8, 2>>, <<3, 7>>}

\* C34: the number of items stays from 1 to 16; with 16 items no step takes a
\* new id, and a step that is not a tick and leaves 16 items leaves the list and
\* the motion state as they are; with 1 item no step removes it, and a step
\* that is not a tick and leaves 1 item leaves the list, the motion state and
\* the id counter as they are.
C34_CountStaysInRange ==
    /\ [](Len(widgets) \in MinWidgets .. MaxWidgets)
    /\ [][/\ Len(widgets) = MaxWidgets =>
                /\ uid' = uid
                /\ Len(widgets') <= MaxWidgets
                /\ (~IsTick /\ Len(widgets') = MaxWidgets) =>
                      (widgets' = widgets /\ phy' = phy)
          /\ Len(widgets) = MinWidgets =>
                /\ Len(widgets') >= MinWidgets
                /\ (~IsTick /\ Len(widgets') = MinWidgets) =>
                      (widgets' = widgets /\ phy' = phy /\ uid' = uid)]_vars

\* C34 witness: from 15 items, an add has taken id 16 and the list is full;
\* two ticks later, whatever adds were tried, the list holds 16 items with 16
\* entries of motion state and the id counter is at 16.
C34_Witness ==
    /\ Len(widgets) = MaxWidgets
    /\ uid = 16
    /\ lastEvent.kind = "add" /\ events = 1
    /\ Cardinality(DOMAIN phy) = MaxWidgets
    /\ timeRef = 2

\* C35: whenever isDirty is false the rows are the rows last loaded or last
\* saved with an ok response.
C35_CleanMeansSaved == ~isDirty => rows = savedRows

\* The last snapshot of a stack.
Top(stack) == stack[Len(stack)]

\* The step delivers an edit: a call of updateRows.
Edited == Delivers("edit") \/ Delivers("type")

\* C36: an edit puts the rows that were current on top of the undo stack; an
\* undo makes the top of the undo stack the rows and puts the rows that were
\* current on top of the redo stack, from where a redo brings them back; an
\* undo with an empty undo stack and a redo with an empty redo stack change
\* nothing.
C36_UndoRedoRestore ==
    [][/\ Edited => (undoStack' # <<>> /\ Top(undoStack') = rows)
       /\ (Delivers("undo") /\ undoStack # <<>>) =>
             /\ rows' = Top(undoStack)
             /\ undoStack' = SubSeq(undoStack, 1, Len(undoStack) - 1)
             /\ redoStack' = Append(redoStack, rows)
       /\ (Delivers("redo") /\ redoStack # <<>>) =>
             /\ rows' = Top(redoStack)
             /\ redoStack' = SubSeq(redoStack, 1, Len(redoStack) - 1)
             /\ undoStack' # <<>> /\ Top(undoStack') = rows
       /\ (Delivers("undo") /\ undoStack = <<>>) => UNCHANGED editorVars
       /\ (Delivers("redo") /\ redoStack = <<>>) => UNCHANGED editorVars]_vars

\* C36 witness: a row was added to the loaded timeline and the undo has brought
\* the loaded rows back; the edited rows wait on the redo stack.
C36_Witness ==
    /\ lastEvent.kind = "undo"
    /\ ~loading
    /\ rows = <<Row(1, 0)>>
    /\ undoStack = <<>>
    /\ redoStack = <<(<<Row(1, 0), Row(2, 120)>>)>>

\* C37: the undo stack never holds more than 50 snapshots; a push on a full
\* stack drops its oldest snapshot and keeps the others in place; every edit
\* leaves the redo stack empty.
C37_UndoStackCapped ==
    /\ [](Len(undoStack) <= MAX_UNDO)
    /\ [][/\ Edited => redoStack' = <<>>
          /\ (Len(undoStack) = MAX_UNDO /\ Len(undoStack') = MAX_UNDO
                /\ undoStack' # undoStack) =>
                undoStack' = Append(Tail(undoStack), rows)]_vars

\* C37 witness: after more than 50 edits the undo stack is full and its oldest
\* snapshot is no longer the empty timeline the session started with.
C37_Witness ==
    /\ lastEvent.kind = "edit" /\ events > MAX_UNDO
    /\ Len(undoStack) = MAX_UNDO
    /\ undoStack[1] # <<>>
    /\ redoStack = <<>>

\* The text consists of exactly four parts, separated by colons, each a
\* numeral: one digit or more.
FourNumericParts(tc) ==
    /\ Len(tc) > 0
    /\ Cardinality({i \in 1 .. Len(tc) : tc[i] = ":"}) = 3
    /\ \A i \in 1 .. Len(tc) : tc[i] = ":" \/ IsDigit(tc[i])
    /\ tc[1] # ":" /\ tc[Len(tc)] # ":"
    /\ \A i \in 1 .. (Len(tc) - 1) : ~(tc[i] = ":" /\ tc[i + 1] = ":")

\* The frame of the row before the change of the field.
FrameBefore == Top(undoStack)[1].frame

\* C38: the text frameToTimecode shows for a frame converts back to that frame,
\* and a text that does not consist of exactly four colon-separated numeric
\* parts converts to 0.
C38_TimecodeRoundTrip ==
    typed # NotTyped =>
        /\ typed = frameToTimecode(FrameBefore, fps) =>
              timecodeToFrame(typed, fps) = FrameBefore
        /\ ~FourNumericParts(typed) => timecodeToFrame(typed, fps) = 0

====
